---- MODULE Spec2Model ----
(***************************************************************************)
(* Chunk streaming (world/chunk.rs), terrain generation (world/terrain.rs), *)
(* the hex coordinate algebra (world/hex.rs), the frame schedule that runs *)
(* the systems (main.rs), the resource stores (world/resources.rs), the    *)
(* agents (agents/agent.rs, engine/tick.rs) and the weather, memory        *)
(* profiling and time systems (engine/).                                   *)
(*                                                                         *)
(* Numbers.  An i32 is an integer of TLA+ kept inside I32_MIN..I32_MAX by  *)
(* the checked operations of the source.  A u32 is a pair <<hi, lo>> of    *)
(* 16-bit halves, so that the wrapping multiplications and the XOR of the  *)
(* seed derivation keep their 32-bit width.  An f32/f64 is a fixed-point   *)
(* integer with FixedOne units per 1.0.                                     *)
(***************************************************************************)
EXTENDS Integers, Sequences, FiniteSets, TLC

\* ------------------------------------------------------------------ bounds
MaxRadius  == 2   \* load_radius is drawn from 0..MaxRadius
MaxLoaders == 2   \* at most this many ChunkLoader entities at a time
MaxFrames  == 3   \* frames (runs of the Update schedule) explored
MaxPos     == 2   \* loaders stand on chunk coordinates (d, d), d in -1..MaxPos

\* ------------------------------------------------------- program constants
CHUNK_SIZE == 16

I32_MAX == 2147483647
I32_MIN == (0 - I32_MAX) - 1
W16 == 2 ^ 16
FixedOne == 10 ^ 3

\* the f32 NaN (the quotient 0.0 / 0.0), a value outside every elevation
F32_NAN == I32_MIN

\* --------------------------------------------------------------- u32 words
RECURSIVE BitXor(_, _, _)
\* bitwise XOR of two n-bit naturals
BitXor(a, b, n) ==
    IF n = 0 THEN 0
    ELSE (((a % 2) + (b % 2)) % 2) + (2 * BitXor(a \div 2, b \div 2, n - 1))

\* `a ^ b` on u32
U32Xor(a, b) == <<BitXor(a[1], b[1], 16), BitXor(a[2], b[2], 16)>>

\* `v as u32` for an i32 v (two's complement reinterpretation)
AsU32(v) == <<(v \div W16) % W16, v % W16>>

\* `u.wrapping_mul(k)` for a small k
WrappingMul(u, k) ==
    LET lo == u[2] * k
    IN  <<((u[1] * k) + (lo \div W16)) % W16, lo % W16>>

\* ------------------------------------------------------------- ChunkCoord
ChunkCoord_new(x, y) == [x |-> x, y |-> y]

HexCoord_new(q, r) == [q |-> q, r |-> r]

position_hash(coord) ==
    LET x == AsU32(coord.x)
        y == AsU32(coord.y)
        x_hash == WrappingMul(x, 31)
        y_hash == WrappingMul(y, 17)
    IN  U32Xor(x_hash, y_hash)

\* ------------------------------------------------------------------ Chunk
EmptyTiles == <<>>

\* Chunk::new with the seed left at zero
Chunk_new_ZeroSeed(coord) ==
    [coord |-> coord,
     tiles |-> EmptyTiles,
     is_loaded |-> FALSE,
     seed |-> <<0, 0>>]

Chunk_new(coord) ==
    [coord |-> coord,
     tiles |-> EmptyTiles,
     is_loaded |-> FALSE,
     seed |-> position_hash(coord)]

\* ------------------------------------------------------- TerrainGenerator
TerrainGenerator_new(seed) ==
    [noise |-> seed,
     scale |-> FixedOne \div 100,
     octaves |-> 4,
     persistence |-> FixedOne \div 2,
     ocean_threshold |-> (2 * FixedOne) \div 10,
     plains_threshold |-> (4 * FixedOne) \div 10,
     forest_threshold |-> (7 * FixedOne) \div 10]

\* TerrainGenerator::with_params: every field as handed over
TerrainGenerator_with_params(seed, scale, octaves, persistence, ocean, plains, forest) ==
    [noise |-> seed,
     scale |-> scale,
     octaves |-> octaves,
     persistence |-> persistence,
     ocean_threshold |-> ocean,
     plains_threshold |-> plains,
     forest_threshold |-> forest]

\* `self.noise.get([x, y])` with x = q * frequency, y = r * frequency: the
\* Perlin sample of the noise crate, a fixed function of the generator's
\* seed and of the sample point, with values in [-1, 1].  The point is
\* handed over as (q, r, frequency); the value depends on the products only.
PerlinGet(noise, q, r, frequency) ==
    LET x == ((q % 1009) * (frequency % 1009)) % 1009
        y == ((r % 997) * (frequency % 997)) % 997
    IN  (((x * 389) + (y * 617) + (noise[2] * 31) + (noise[1] * 7)) % ((2 * FixedOne) + 1))
            - FixedOne

RECURSIVE OctaveLoop(_, _, _, _, _, _, _)
\* the loop `for _ in 0..self.octaves` of generate_elevation; elevation is
\* carried in units of 1 / FixedOne^2, the others in units of 1 / FixedOne
OctaveLoop(gen, coord, i, elevation, amplitude, frequency, max_value) ==
    IF i >= gen.octaves
    THEN [elevation |-> elevation, max_value |-> max_value]
    ELSE OctaveLoop(gen, coord, i + 1,
                    elevation + amplitude * PerlinGet(gen.noise, coord.q, coord.r, frequency),
                    (amplitude * gen.persistence) \div FixedOne,
                    frequency * 2,
                    max_value + amplitude)

\* generate_elevation without the division by max_value
generate_elevation_Unnormalised(gen, coord) ==
    LET acc == OctaveLoop(gen, coord, 0, 0, FixedOne, gen.scale, 0)
    IN  IF acc.max_value = 0
        THEN F32_NAN
        ELSE ((acc.elevation \div FixedOne) + FixedOne) \div 2

generate_elevation(gen, coord) ==
    LET acc == OctaveLoop(gen, coord, 0, 0, FixedOne, gen.scale, 0)
    IN  IF acc.max_value = 0
        THEN F32_NAN
        ELSE ((acc.elevation \div acc.max_value) + FixedOne) \div 2

\* `a < b` on f32: false when a is NaN
F32Less(a, b) == a # F32_NAN /\ a < b

\* `a <= b` on f32: false when a is NaN
F32LessEq(a, b) == a # F32_NAN /\ a <= b

\* get_biome with `<=` in place of `<`
get_biome_Inclusive(gen, elevation) ==
    IF F32LessEq(elevation, gen.ocean_threshold) THEN "Ocean"
    ELSE IF F32LessEq(elevation, gen.plains_threshold) THEN "Plains"
    ELSE IF F32LessEq(elevation, gen.forest_threshold) THEN "Forest"
    ELSE "Mountains"

get_biome(gen, elevation) ==
    IF F32Less(elevation, gen.ocean_threshold) THEN "Ocean"
    ELSE IF F32Less(elevation, gen.plains_threshold) THEN "Plains"
    ELSE IF F32Less(elevation, gen.forest_threshold) THEN "Forest"
    ELSE "Mountains"

\* i32::checked_mul by a positive factor: <<v>> is Some(v), <<>> is None
checked_mul(a, b) ==
    LET hi == I32_MAX \div b
        lo == (I32_MIN \div b) + (IF I32_MIN % b = 0 THEN 0 ELSE 1)
    IN  IF a > hi \/ a < lo THEN <<>> ELSE <<a * b>>

\* checked_add that already reports i32::MAX itself as an overflow
checked_add_Strict(a, b) == IF a >= I32_MAX - b THEN <<>> ELSE <<a + b>>

\* i32::checked_add of a non-negative addend: <<v>> is Some(v), <<>> is None
checked_add(a, b) == IF a > I32_MAX - b THEN <<>> ELSE <<a + b>>

Tile(elevation, biome) == [elevation |-> elevation, biome |-> biome]

\* TileHex with wrapping_mul and wrapping_add in place of the checked ones
TileHex_Wrapping(coord, q, r) ==
    LET wrapping_mul(v) ==
            LET m == v % ((I32_MAX \div 8) + 1)
            IN  IF m > I32_MAX \div CHUNK_SIZE
                THEN (m - ((I32_MAX \div 8) + 1)) * CHUNK_SIZE
                ELSE m * CHUNK_SIZE
    IN  {HexCoord_new(wrapping_mul(coord.x) + q, wrapping_mul(coord.y) + r)}

\* TileHex with the two axes exchanged in HexCoord::new
TileHex_Swapped(coord, q, r) ==
    LET q_base == checked_mul(coord.x, CHUNK_SIZE)
        hex_q == IF q_base = <<>> THEN <<>> ELSE checked_add(q_base[1], q)
        r_base == checked_mul(coord.y, CHUNK_SIZE)
        hex_r == IF r_base = <<>> THEN <<>> ELSE checked_add(r_base[1], r)
    IN  IF hex_q = <<>> \/ hex_r = <<>> THEN {} ELSE {HexCoord_new(hex_r[1], hex_q[1])}

\* the global coordinate of local tile (q, r) of the chunk: {hex}, or {} when
\* the tile is skipped (`continue`) because of an overflow
TileHex(coord, q, r) ==
    LET q_base == checked_mul(coord.x, CHUNK_SIZE)
        hex_q == IF q_base = <<>> THEN <<>> ELSE checked_add(q_base[1], q)
        r_base == checked_mul(coord.y, CHUNK_SIZE)
        hex_r == IF r_base = <<>> THEN <<>> ELSE checked_add(r_base[1], r)
    IN  IF hex_q = <<>> \/ hex_r = <<>> THEN {} ELSE {HexCoord_new(hex_q[1], hex_r[1])}

\* the chunk after generate_chunk_terrain(&mut chunk)
generate_chunk_terrain(gen, chunk) ==
    LET Local == (0 .. CHUNK_SIZE - 1) \X (0 .. CHUNK_SIZE - 1)
        keys == UNION {TileHex(chunk.coord, l[1], l[2]) : l \in Local}
        fresh(h) == LET elevation == generate_elevation(gen, h)
                    IN  Tile(elevation, get_biome(gen, elevation))
    IN  [chunk EXCEPT !.tiles =
            [h \in (DOMAIN chunk.tiles) \cup keys |->
                IF h \in keys THEN fresh(h) ELSE chunk.tiles[h]]]

\* ------------------------------------------------------------ evaluation
\* The generator of the running application, and the terrain it gives every
\* chunk the bounded world can hold, evaluated once.  generate_chunk_terrain
\* and the per-tile loop of terrain_generation_system are functions of
\* (generator, coordinate) alone, so the table is a cache of them and nothing
\* else: outside its range the operators themselves are evaluated.
\* (TLC tabulates a function when it compares it, here with itself.)
DefaultGenerator == TerrainGenerator_new(<<0, 0>>)

CachedCoords == ((0 - 1) - MaxRadius) .. (MaxPos + MaxRadius)

TerrainCache ==
    [x \in CachedCoords |->
        [y \in CachedCoords |->
            LET tiles == generate_chunk_terrain(DefaultGenerator,
                                                Chunk_new(ChunkCoord_new(x, y))).tiles
            IN  IF tiles = tiles THEN tiles ELSE <<>>]]

IsCached(gen, coord) ==
    /\ gen = DefaultGenerator
    /\ coord.x \in CachedCoords
    /\ coord.y \in CachedCoords

\* generate_chunk_terrain(gen, chunk), through the cache where it applies
CachedChunkTerrain(gen, chunk) ==
    IF IsCached(gen, chunk.coord) /\ chunk.tiles = <<>>
    THEN [chunk EXCEPT !.tiles = TerrainCache[chunk.coord.x][chunk.coord.y]]
    ELSE generate_chunk_terrain(gen, chunk)

\* =================================================================== state
VARIABLES
    pc,                    \* position in the schedule of main.rs
    frame,                 \* number of the current run of the Update schedule
    ran,                   \* systems of SimulationSet::WorldGeneration run this frame
    world_seed,            \* resource WorldSeed
    terrain_generator,     \* resource TerrainGenerator
    loaded_chunks,         \* resource LoadedChunks: [chunks, load_radius]
    loaders,               \* the ChunkLoader components, in query order
    world,                 \* the entities that carry a Chunk component: entity -> Chunk
    commands,              \* the deferred command queue, applied at the next sync point
    next_entity,           \* the next entity id that Commands::spawn reserves
    chunk_loaded_events,   \* Events<ChunkLoaded>
    chunk_unloaded_events, \* Events<ChunkUnloaded>
    chunks_to_load,        \* the local of the last run of chunk_loading_system
    chunks_to_unload,      \* the local of the last run of chunk_loading_system
    resident_trace,        \* loaded_chunks.chunks.len() at each point of the last run
    prev_loaders,          \* the loaders as they stood during the previous frame
    evicted,               \* coordinate -> the chunk as it was when last unloaded
    debug_log,             \* what debug_chunk_system logged last
    call,                  \* the call of a library function under way: its name and arguments
    ret,                   \* what that call returned
    resource_manager,      \* resource ResourceManager: [resources, max_capacity]
    resource_systems,      \* the ResourceSystem components, in query order
    resource_changed_events, \* Events<ResourceChanged>
    agents,                \* the Agent components, in query order
    tick_events,           \* Events<AgentTickCompleted>
    weather,               \* the WeatherSystem components, in query order
    weather_changed_events, \* Events<WeatherChanged>: [events_a, events_b, event_count]
    weather_reader,        \* the EventReader of process_weather_changes: [last_event_count]
    weather_log,           \* the ids of the events process_weather_changes has logged
    memory_profiler,       \* resource MemoryProfiler: [memory_history]
    memory_request,        \* resource MemoryProfilingRequest: [timestamp]
    time_systems           \* the TimeSystem components, in query order

\* The state of src/world/resources.rs and of src/engine/, which the chunk
\* systems never touch.
engine == <<resource_manager, resource_systems, resource_changed_events, agents,
            tick_events, weather, weather_changed_events, weather_reader,
            weather_log, memory_profiler, memory_request, time_systems>>

vars == <<pc, frame, ran, world_seed, terrain_generator, loaded_chunks, loaders,
          world, commands, next_entity, chunk_loaded_events, chunk_unloaded_events,
          chunks_to_load, chunks_to_unload, resident_trace, prev_loaders, evicted,
          debug_log, call, ret, engine>>

\* ------------------------------------------- resources.rs and engine/ at rest
ResourceTypes == {"Food", "Water", "Energy", "Metal", "Oxygen"}

\* ResourceManager::new: an empty `resources` map, every capacity 1000.0.
\* An entry of `resources` is <<v>> when the key is present, <<>> when not.
ResourceManager_new ==
    [resources        |-> [t \in ResourceTypes |-> <<>>],
     max_capacity     |-> [t \in ResourceTypes |-> 1000 * FixedOne],
     regeneration_rate |-> FixedOne,
     depletion_rate   |-> FixedOne]

\* ResourceSystem::new: an empty `resources` map, every capacity 100.0
ResourceSystem_new ==
    [resources        |-> [t \in ResourceTypes |-> <<>>],
     max_capacity     |-> [t \in ResourceTypes |-> 100 * FixedOne],
     regeneration_rate |-> FixedOne,
     consumption_rate |-> FixedOne]

\* WeatherSystem::default
WeatherSystem_default ==
    [temperature    |-> 20 * FixedOne,
     humidity       |-> FixedOne \div 2,
     wind_speed     |-> 0,
     wind_direction |-> 0,
     precipitation  |-> 0,
     cloud_cover    |-> (3 * FixedOne) \div 10]

\* no resource call has been made
ResourcesIdle ==
    /\ resource_manager = ResourceManager_new
    /\ resource_systems = <<>>
    /\ resource_changed_events = <<>>

\* no agent has been spawned
AgentsIdle ==
    /\ agents = <<>>
    /\ tick_events = <<>>

\* Events::default: both buffers empty, no event counted
Events_default == [events_a |-> <<>>, events_b |-> <<>>, event_count |-> 0]

\* the Local of an EventReader that has read nothing
EventReader_default == [last_event_count |-> 0]

\* add_event has registered the events, nothing has been sent or read
WeatherEventsIdle ==
    /\ weather_changed_events = Events_default
    /\ weather_reader = EventReader_default
    /\ weather_log = <<>>

\* no weather entity has been spawned
WeatherIdle ==
    /\ weather = <<>>
    /\ WeatherEventsIdle

\* MemoryProfiler::default and MemoryProfilingRequest::default
ProfilerIdle ==
    /\ memory_profiler = [memory_history |-> <<>>]
    /\ memory_request = [timestamp |-> 0]

\* no TimeSystem has been spawned
TimeIdle == time_systems = <<>>

EngineIdle == ResourcesIdle /\ AgentsIdle /\ WeatherIdle /\ ProfilerIdle /\ TimeIdle

WorldSeeds == {<<0, 42>>, <<W16 - 1, W16 - 3>>}

LoaderCoords == {ChunkCoord_new(d, d) : d \in (0 - 1) .. MaxPos}

Abs(v) == IF v < 0 THEN 0 - v ELSE v

Range(seq) == {seq[i] : i \in DOMAIN seq}

\* the elements of a finite set of integers in increasing order
SortedSeq(S) ==
    [i \in 1 .. Cardinality(S) |->
        CHOOSE v \in S : Cardinality({w \in S : w < v}) = i - 1]

\* ---------------------------------------------------- chunk_loading_system
\* the coordinates the two nested `for dx`, `for dy` loops visit, in order
Window(loader_coord, load_radius) ==
    LET n == (2 * load_radius) + 1
    IN  [i \in 1 .. (n * n) |->
            ChunkCoord_new(loader_coord.x + ((i - 1) \div n) - load_radius,
                           loader_coord.y + ((i - 1) % n) - load_radius)]

RECURSIVE CollectChunksToLoad(_, _, _)
\* `chunks_to_load` after the loop over the loaders
CollectChunksToLoad(ldrs, i, lc) ==
    IF i > Len(ldrs) THEN <<>>
    ELSE SelectSeq(Window(ldrs[i], lc.load_radius),
                   LAMBDA chunk_coord : chunk_coord \notin DOMAIN lc.chunks)
         \o CollectChunksToLoad(ldrs, i + 1, lc)

\* the load loop without `chunk.seed = world_seed.0 ^ ...`
NewChunk_KeepsNewSeed(chunk_coord) ==
    LET chunk == Chunk_new(chunk_coord)
        generated == CachedChunkTerrain(terrain_generator, chunk)
    IN  [generated EXCEPT !.is_loaded = TRUE]

\* the load loop without the call of generate_chunk_terrain
NewChunk_Unpopulated(chunk_coord) ==
    LET chunk == Chunk_new(chunk_coord)
        seeded == [chunk EXCEPT !.seed = U32Xor(world_seed, position_hash(chunk_coord))]
    IN  [seeded EXCEPT !.is_loaded = TRUE]

\* the load loop with a seed that also depends on when the chunk is created
NewChunk_FrameSeed(chunk_coord) ==
    LET chunk == Chunk_new(chunk_coord)
        seeded == [chunk EXCEPT !.seed = U32Xor(U32Xor(world_seed, AsU32(frame)),
                                                position_hash(chunk_coord))]
        generated == CachedChunkTerrain(terrain_generator, seeded)
    IN  [generated EXCEPT !.is_loaded = TRUE]

\* the chunk one iteration of `for chunk_coord in chunks_to_load` spawns
NewChunk(chunk_coord) ==
    LET chunk == Chunk_new(chunk_coord)
        seeded == [chunk EXCEPT !.seed = U32Xor(world_seed, position_hash(chunk_coord))]
        generated == CachedChunkTerrain(terrain_generator, seeded)
    IN  [generated EXCEPT !.is_loaded = TRUE]

\* the state after `for chunk_coord in chunks_to_load { ... }`: iteration i
\* spawns under the next free entity id, and its insert replaces any entry the
\* key had, so a key ends with the entity of the last iteration that names it;
\* the trace gets the length of the mapping after each insert
LoadPhase(to_load, st) ==
    LET n == Len(to_load)
        EntityOf(i) == st.next_entity + (i - 1)
        LastOf(c) == CHOOSE i \in 1 .. n :
                        /\ to_load[i] = c
                        /\ \A j \in (i + 1) .. n : to_load[j] # c
        KeysAfter(i) == (DOMAIN st.chunks) \cup {to_load[j] : j \in 1 .. i}
    IN  [chunks |-> [c \in KeysAfter(n) |->
                        IF c \in Range(to_load) THEN EntityOf(LastOf(c))
                        ELSE st.chunks[c]],
         commands |-> st.commands \o
                        [i \in 1 .. n |-> [op |-> "spawn", entity |-> EntityOf(i),
                                           chunk |-> NewChunk(to_load[i])]],
         next_entity |-> st.next_entity + n,
         trace |-> st.trace \o [i \in 1 .. n |-> Cardinality(KeysAfter(i))]]

\* should_unload with `||` for `&&`: one axis in range keeps the chunk
should_unload_EitherAxis(chunk, ldrs, load_radius) ==
    ~ \E i \in DOMAIN ldrs :
        LET dx == Abs(chunk.coord.x - ldrs[i].x)
            dy == Abs(chunk.coord.y - ldrs[i].y)
        IN  dx <= load_radius \/ dy <= load_radius

\* should_unload with `<` for `<=`: the rim of the window is out of range
should_unload_Strict(chunk, ldrs, load_radius) ==
    ~ \E i \in DOMAIN ldrs :
        LET dx == Abs(chunk.coord.x - ldrs[i].x)
            dy == Abs(chunk.coord.y - ldrs[i].y)
        IN  dx < load_radius /\ dy < load_radius

\* `should_unload` after the loop over the loaders
should_unload(chunk, ldrs, load_radius) ==
    ~ \E i \in DOMAIN ldrs :
        LET dx == Abs(chunk.coord.x - ldrs[i].x)
            dy == Abs(chunk.coord.y - ldrs[i].y)
        IN  dx <= load_radius /\ dy <= load_radius

\* `chunks_to_unload` after `for (entity, chunk) in chunks.iter()`; the query
\* is walked in entity order (the removals commute, so the order is immaterial)
CollectChunksToUnload(w, ldrs, load_radius) ==
    LET far == {e \in DOMAIN w : should_unload(w[e], ldrs, load_radius)}
        order == SortedSeq(far)
    IN  [i \in DOMAIN order |-> [entity |-> order[i], coord |-> w[order[i]].coord]]

\* the unload loop without `loaded_chunks.chunks.remove(&coord)`
UnloadPhase_KeepsEntry(to_unload, st) ==
    LET n == Len(to_unload)
    IN  [st EXCEPT
            !.commands = st.commands \o
                [i \in 1 .. n |-> [op |-> "despawn", entity |-> to_unload[i].entity]],
            !.trace = st.trace \o [i \in 1 .. n |-> Cardinality(DOMAIN st.chunks)]]

\* the state after `for (entity, coord) in chunks_to_unload { ... }`: each
\* iteration queues the despawn and removes the key; the trace gets the
\* length of the mapping after each remove
UnloadPhase(to_unload, st) ==
    LET n == Len(to_unload)
        KeysAfter(i) == (DOMAIN st.chunks) \ {to_unload[j].coord : j \in 1 .. i}
    IN  [st EXCEPT
            !.chunks = [c \in KeysAfter(n) |-> st.chunks[c]],
            !.commands = st.commands \o
                [i \in 1 .. n |-> [op |-> "despawn", entity |-> to_unload[i].entity]],
            !.trace = st.trace \o [i \in 1 .. n |-> Cardinality(KeysAfter(i))]]

\* the unload loop run before the load loop
RunPhases_UnloadFirst(to_load, to_unload, st) ==
    LoadPhase(to_load, UnloadPhase(to_unload, st))

\* the body of chunk_loading_system after both lists are known: the load
\* loop, then the unload loop
RunPhases(to_load, to_unload, st) ==
    UnloadPhase(to_unload, LoadPhase(to_load, st))

\* the chunks the unload loop drops, by coordinate, as they were in the world
Evicted(to_unload, w, old) ==
    LET gone == {to_unload[i].coord : i \in DOMAIN to_unload}
    IN  [c \in (DOMAIN old) \cup gone |->
            IF c \in gone
            THEN w[to_unload[CHOOSE i \in DOMAIN to_unload : to_unload[i].coord = c].entity]
            ELSE old[c]]

AfterWorldGeneration(system) ==
    IF ran \cup {system} = {"chunk_loading_system", "terrain_generation_system"}
    THEN "UpdateSync" ELSE "Update"

chunk_loading_system ==
    /\ pc = "Update"
    /\ "chunk_loading_system" \notin ran
    /\ LET to_load == CollectChunksToLoad(loaders, 1, loaded_chunks)
           to_unload == CollectChunksToUnload(world, loaders, loaded_chunks.load_radius)
           st == RunPhases(to_load, to_unload,
                     [chunks |-> loaded_chunks.chunks,
                      commands |-> commands,
                      next_entity |-> next_entity,
                      trace |-> <<Cardinality(DOMAIN loaded_chunks.chunks)>>])
       IN  /\ loaded_chunks' = [loaded_chunks EXCEPT !.chunks = st.chunks]
           /\ commands' = st.commands
           /\ next_entity' = st.next_entity
           /\ chunks_to_load' = to_load
           /\ chunks_to_unload' = to_unload
           /\ resident_trace' = st.trace
           /\ evicted' = Evicted(to_unload, world, evicted)
    /\ ran' = ran \cup {"chunk_loading_system"}
    /\ pc' = AfterWorldGeneration("chunk_loading_system")
    /\ UNCHANGED <<frame, world_seed, terrain_generator, loaders, world,
                   chunk_loaded_events, chunk_unloaded_events, prev_loaders,
                   debug_log,
                   call, ret, engine>>

\* ----------------------------------------------- terrain_generation_system
\* the chunk after one iteration of `for mut chunk in chunks.iter_mut()`
RegenerateTiles(gen, chunk) ==
    IF ~ chunk.is_loaded THEN chunk
    ELSE [chunk EXCEPT !.tiles =
            [hex \in DOMAIN chunk.tiles |->
                LET elevation == generate_elevation(gen, hex)
                IN  Tile(elevation, get_biome(gen, elevation))]]

\* RegenerateTiles(gen, chunk), through the cache where it applies: a tile
\* map with the keys of the cached one is rewritten to the cached one
CachedRegenerate(gen, chunk) ==
    IF /\ IsCached(gen, chunk.coord)
       /\ chunk.is_loaded
       /\ DOMAIN chunk.tiles = DOMAIN TerrainCache[chunk.coord.x][chunk.coord.y]
    THEN [chunk EXCEPT !.tiles = TerrainCache[chunk.coord.x][chunk.coord.y]]
    ELSE RegenerateTiles(gen, chunk)

terrain_generation_system ==
    /\ pc = "Update"
    /\ "terrain_generation_system" \notin ran
    /\ world' = [e \in DOMAIN world |-> CachedRegenerate(terrain_generator, world[e])]
    /\ ran' = ran \cup {"terrain_generation_system"}
    /\ pc' = AfterWorldGeneration("terrain_generation_system")
    /\ UNCHANGED <<frame, world_seed, terrain_generator, loaded_chunks, loaders,
                   commands, next_entity, chunk_loaded_events, chunk_unloaded_events,
                   chunks_to_load, chunks_to_unload, resident_trace, prev_loaders,
                   evicted, debug_log,
                   call, ret, engine>>

\* ------------------------------------------------------------ setup_world
setup_world ==
    /\ pc = "Startup"
    /\ commands' = Append(commands, [op |-> "spawn_loader", entity |-> next_entity,
                                     coord |-> ChunkCoord_new(0, 0)])
    /\ next_entity' = next_entity + 1
    /\ pc' = "StartupSync"
    /\ UNCHANGED <<frame, ran, world_seed, terrain_generator, loaded_chunks, loaders,
                   world, chunk_loaded_events, chunk_unloaded_events, chunks_to_load,
                   chunks_to_unload, resident_trace, prev_loaders, evicted, debug_log,
                   call, ret, engine>>

\* ------------------------------------------------- the schedule's sync point
\* the world and the loaders after the queued commands are applied in order:
\* a spawn adds its entity with its bundle, a despawn takes its entity away.
\* (No queue despawns an entity it spawns: despawns name entities of the
\* world as it was when the system ran.)
ApplyCommands(queue, st) ==
    LET Of(op) == {i \in DOMAIN queue : queue[i].op = op}
        spawned == {queue[i].entity : i \in Of("spawn")}
        despawned == {queue[i].entity : i \in Of("despawn")}
        chunk_of(e) == queue[CHOOSE i \in Of("spawn") : queue[i].entity = e].chunk
        new_loaders == SortedSeq(Of("spawn_loader"))
    IN  [world |-> [e \in ((DOMAIN st.world) \cup spawned) \ despawned |->
                       IF e \in spawned THEN chunk_of(e) ELSE st.world[e]],
         loaders |-> st.loaders \o
                       [i \in DOMAIN new_loaders |-> queue[new_loaders[i]].coord]]

apply_deferred ==
    /\ pc \in {"StartupSync", "UpdateSync"}
    /\ LET st == ApplyCommands(commands, [world |-> world, loaders |-> loaders])
       IN  /\ world' = st.world
           /\ loaders' = st.loaders
    /\ commands' = <<>>
    /\ pc' = IF pc = "StartupSync" THEN "FrameEnd" ELSE "Debug"
    /\ UNCHANGED <<frame, ran, world_seed, terrain_generator, loaded_chunks,
                   next_entity, chunk_loaded_events, chunk_unloaded_events,
                   chunks_to_load, chunks_to_unload, resident_trace, prev_loaders,
                   evicted, debug_log,
                   call, ret, engine>>

\* ------------------------------------------------------ debug_chunk_system
debug_chunk_system ==
    /\ pc = "Debug"
    /\ debug_log' = [loaded |-> Cardinality(DOMAIN loaded_chunks.chunks),
                     chunks |-> {<<world[e].coord, Cardinality(DOMAIN world[e].tiles)>> :
                                    e \in DOMAIN world}]
    /\ pc' = "FrameEnd"
    /\ UNCHANGED <<frame, ran, world_seed, terrain_generator, loaded_chunks, loaders,
                   world, commands, next_entity, chunk_loaded_events,
                   chunk_unloaded_events, chunks_to_load, chunks_to_unload,
                   resident_trace, prev_loaders, evicted,
                   call, ret, engine>>

\* ------------------------------------- between frames: the loaders' movement
BeginFrame(new_loaders) ==
    /\ pc = "FrameEnd"
    /\ frame < MaxFrames
    /\ frame' = frame + 1
    /\ prev_loaders' = loaders
    /\ loaders' = new_loaders
    /\ ran' = {}
    /\ pc' = "Update"
    /\ UNCHANGED <<world_seed, terrain_generator, loaded_chunks, world, commands,
                   next_entity, chunk_loaded_events, chunk_unloaded_events,
                   chunks_to_load, chunks_to_unload, resident_trace, evicted,
                   debug_log,
                   call, ret, engine>>

\* no loader changes
LoadersStay == BeginFrame(loaders)

\* the external movement system puts one loader somewhere else
MoveLoader ==
    \E i \in DOMAIN loaders : \E p \in LoaderCoords \ {loaders[i]} :
        BeginFrame([loaders EXCEPT ![i] = p])

\* one more loader appears
SpawnLoader ==
    /\ Len(loaders) < MaxLoaders
    /\ \E p \in LoaderCoords : BeginFrame(Append(loaders, p))

\* one loader disappears
DespawnLoader ==
    \E i \in DOMAIN loaders :
        BeginFrame(SubSeq(loaders, 1, i - 1) \o SubSeq(loaders, i + 1, Len(loaders)))

\* ------------------------------------------------------------------- main
Init ==
    /\ pc = "Startup"
    /\ frame = 0
    /\ ran = {}
    /\ world_seed \in WorldSeeds
    /\ terrain_generator = DefaultGenerator
    /\ \E r \in 0 .. MaxRadius :
          loaded_chunks = [chunks |-> <<>>, load_radius |-> r]
    /\ loaders = <<>>
    /\ world = <<>>
    /\ commands = <<>>
    /\ next_entity = 0
    /\ chunk_loaded_events = <<>>
    /\ chunk_unloaded_events = <<>>
    /\ chunks_to_load = <<>>
    /\ chunks_to_unload = <<>>
    /\ resident_trace = <<0>>
    /\ prev_loaders = <<>>
    /\ evicted = <<>>
    /\ debug_log = [loaded |-> 0, chunks |-> {}]
    /\ call = <<>>
    /\ ret = <<>>
    /\ EngineIdle

Next ==
    \/ setup_world
    \/ apply_deferred
    \/ chunk_loading_system
    \/ terrain_generation_system
    \/ debug_chunk_system
    \/ LoadersStay
    \/ MoveLoader
    \/ SpawnLoader
    \/ DespawnLoader

Spec == Init /\ [][Next]_vars

\* ================================================ Chunk::new on its own
\* Chunk::new applied to coordinates drawn from a bounded square, under each
\* world seed: `world` keeps the last two chunks constructed.
NewCoords ==
    {ChunkCoord_new(x, y) : x \in (0 - MaxPos) .. (MaxPos + 1),
                            y \in (0 - MaxPos) .. (MaxPos + 2)}

InitNew ==
    /\ pc = "Chunk::new"
    /\ frame = 0
    /\ ran = {}
    /\ world_seed \in WorldSeeds
    /\ terrain_generator = DefaultGenerator
    /\ loaded_chunks = [chunks |-> <<>>, load_radius |-> 0]
    /\ loaders = <<>>
    /\ world = <<>>
    /\ commands = <<>>
    /\ next_entity = 0
    /\ chunk_loaded_events = <<>>
    /\ chunk_unloaded_events = <<>>
    /\ chunks_to_load = <<>>
    /\ chunks_to_unload = <<>>
    /\ resident_trace = <<0>>
    /\ prev_loaders = <<>>
    /\ evicted = <<>>
    /\ debug_log = [loaded |-> 0, chunks |-> {}]
    /\ call = <<>>
    /\ ret = <<>>
    /\ EngineIdle

ConstructChunk ==
    /\ pc = "Chunk::new"
    /\ \E coord \in NewCoords :
          world' = IF world = <<>> THEN <<Chunk_new(coord)>>
                   ELSE <<world[Len(world)], Chunk_new(coord)>>
    /\ UNCHANGED <<pc, frame, ran, world_seed, terrain_generator, loaded_chunks,
                   loaders, commands, next_entity, chunk_loaded_events,
                   chunk_unloaded_events, chunks_to_load, chunks_to_unload,
                   resident_trace, prev_loaders, evicted, debug_log,
                   call, ret, engine>>

NextNew == ConstructChunk

SpecNew == InitNew /\ [][NextNew]_vars

\* ============================================ library calls on their own
\* every variable but pc, world, loaded_chunks, loaders, call and ret, as
\* main leaves it before the first system runs
Idle ==
    /\ frame = 0
    /\ ran = {}
    /\ world_seed = <<0, 42>>
    /\ terrain_generator = DefaultGenerator
    /\ commands = <<>>
    /\ next_entity = 0
    /\ chunk_loaded_events = <<>>
    /\ chunk_unloaded_events = <<>>
    /\ chunks_to_load = <<>>
    /\ chunks_to_unload = <<>>
    /\ resident_trace = <<0>>
    /\ prev_loaders = <<>>
    /\ evicted = <<>>
    /\ debug_log = [loaded |-> 0, chunks |-> {}]

\* `a / b` on i32 for a positive b: the quotient rounded towards zero
i32_div(a, b) ==
    IF a >= 0 THEN a \div b
    ELSE (a \div b) + (IF a % b = 0 THEN 0 ELSE 1)

\* ---------------------------------------------------- ChunkCoord::from_hex
from_hex(hex) ==
    ChunkCoord_new(i32_div(hex.q, CHUNK_SIZE), i32_div(hex.r, CHUNK_SIZE))

\* ------------------------ generate_chunk_terrain and from_hex on their own
\* chunk coordinates next to the origin and at the ends of the i32 range,
\* where `coord * CHUNK_SIZE` stops being representable
NearCoords == (0 - MaxPos) .. MaxPos

EdgeCoords ==
    {I32_MIN, (I32_MIN \div CHUNK_SIZE) - 1, I32_MIN \div CHUNK_SIZE,
     I32_MAX \div CHUNK_SIZE, (I32_MAX \div CHUNK_SIZE) + 1, I32_MAX}

TerrainCoords ==
    {ChunkCoord_new(x, y) : x \in NearCoords \cup EdgeCoords, y \in NearCoords}
    \cup {ChunkCoord_new(x, x) : x \in EdgeCoords}
    \cup {ChunkCoord_new(0, y) : y \in EdgeCoords}

InitTerrain ==
    /\ Idle
    /\ EngineIdle
    /\ pc = "call"
    /\ loaded_chunks = [chunks |-> <<>>, load_radius |-> 0]
    /\ loaders = <<>>
    /\ world = <<>>
    /\ \E coord \in TerrainCoords :
          call = [fn |-> "generate_chunk_terrain", coord |-> coord]
    /\ ret = <<>>

\* generate_chunk_terrain(&mut chunk) on the chunk Chunk::new(coord) gives
Call_generate_chunk_terrain ==
    /\ pc = "call"
    /\ call.fn = "generate_chunk_terrain"
    /\ world' = <<generate_chunk_terrain(terrain_generator, Chunk_new(call.coord))>>
    /\ pc' = "generated"
    /\ UNCHANGED <<frame, ran, world_seed, terrain_generator, loaded_chunks, loaders,
                   commands, next_entity, chunk_loaded_events, chunk_unloaded_events,
                   chunks_to_load, chunks_to_unload, resident_trace, prev_loaders,
                   evicted, debug_log, call, ret, engine>>

\* ChunkCoord::from_hex on one of the keys of the generated chunk
Call_from_hex ==
    /\ pc = "generated"
    /\ \E hex \in DOMAIN world[1].tiles :
          /\ call' = [fn |-> "from_hex", hex |-> hex]
          /\ ret' = from_hex(hex)
    /\ pc' = "return"
    /\ UNCHANGED <<frame, ran, world_seed, terrain_generator, loaded_chunks, loaders,
                   world, commands, next_entity, chunk_loaded_events,
                   chunk_unloaded_events, chunks_to_load, chunks_to_unload,
                   resident_trace, prev_loaders, evicted, debug_log, engine>>

\* v - 1, v and v + 1, as far as they are i32 values
Around(v) ==
    {v} \cup (IF v > I32_MIN THEN {v - 1} ELSE {})
        \cup (IF v < I32_MAX THEN {v + 1} ELSE {})

\* the coordinates of a second chunk: the neighbours of the first, and the
\* chunks of its row at the ends of the i32 range
SecondCoords(coord) ==
    ({ChunkCoord_new(x, y) : x \in Around(coord.x), y \in Around(coord.y)}
        \cup {ChunkCoord_new(x, coord.y) : x \in EdgeCoords})
    \ {coord}

\* generate_chunk_terrain on a second chunk, of another coordinate
Call_generate_chunk_terrain_again ==
    /\ pc = "generated"
    /\ \E coord \in SecondCoords(world[1].coord) :
          /\ world' = Append(world,
                             generate_chunk_terrain(terrain_generator, Chunk_new(coord)))
          /\ call' = [fn |-> "generate_chunk_terrain", coord |-> coord]
    /\ pc' = "generated twice"
    /\ UNCHANGED <<frame, ran, world_seed, terrain_generator, loaded_chunks, loaders,
                   commands, next_entity, chunk_loaded_events, chunk_unloaded_events,
                   chunks_to_load, chunks_to_unload, resident_trace, prev_loaders,
                   evicted, debug_log, ret, engine>>

NextTerrain ==
    \/ Call_generate_chunk_terrain
    \/ Call_from_hex
    \/ Call_generate_chunk_terrain_again

SpecTerrain == InitTerrain /\ [][NextTerrain]_vars

\* ------------------------------------------ LoadedChunks::get_neighbor_chunks
\* get_neighbor_chunks without `if dx == 0 && dy == 0 { continue; }`
get_neighbor_chunks_WithCentre(lc, coord) ==
    LET around == SelectSeq(Window(coord, 1),
                            LAMBDA neighbor_coord : neighbor_coord \in DOMAIN lc.chunks)
    IN  [i \in DOMAIN around |-> lc.chunks[around[i]]]

\* the two loops over dx and dy visit the window of radius 1 around coord
get_neighbor_chunks(lc, coord) ==
    LET around == SelectSeq(Window(coord, 1),
                            LAMBDA neighbor_coord :
                                /\ neighbor_coord # coord
                                /\ neighbor_coord \in DOMAIN lc.chunks)
    IN  [i \in DOMAIN around |-> lc.chunks[around[i]]]

\* the loaders stand on a small square; the coordinates asked about reach one
\* step beyond it
SquareCoords ==
    {ChunkCoord_new(x, y) : x \in 0 .. (MaxPos - 1), y \in 0 .. (MaxPos - 1)}

QueryCoords ==
    {ChunkCoord_new(x, y) : x \in (0 - 1) .. MaxPos, y \in (0 - 1) .. MaxPos}

InitNeighbors ==
    /\ Idle
    /\ EngineIdle
    /\ pc = "Update"
    /\ \E r \in 0 .. (MaxRadius - 1) :
          loaded_chunks = [chunks |-> <<>>, load_radius |-> r]
    /\ \E p1 \in SquareCoords :
          \/ loaders = <<p1>>
          \/ \E p2 \in SquareCoords : loaders = <<p1, p2>>
    /\ world = <<>>
    /\ call = <<>>
    /\ ret = <<>>

\* one call, before or after the frame's run of chunk_loading_system
Call_get_neighbor_chunks ==
    /\ pc = "Update"
    /\ \E coord \in QueryCoords :
          /\ call' = [fn |-> "get_neighbor_chunks", coord |-> coord]
          /\ ret' = get_neighbor_chunks(loaded_chunks, coord)
    /\ pc' = "return"
    /\ UNCHANGED <<frame, ran, world_seed, terrain_generator, loaded_chunks,
                   loaders, world, commands, next_entity, chunk_loaded_events,
                   chunk_unloaded_events, chunks_to_load, chunks_to_unload,
                   resident_trace, prev_loaders, evicted, debug_log, engine>>

NextNeighbors ==
    \/ chunk_loading_system
    \/ Call_get_neighbor_chunks

SpecNeighbors == InitNeighbors /\ [][NextNeighbors]_vars

\* ============================================================ world/hex.rs
\* The i32 operations of hex.rs are unchecked `+`, `-` and `abs`; the
\* coordinates drawn below stay far from the ends of the i32 range, where
\* these are the operations of the integers.
MaxHex == 2   \* hex coordinates and cube components are drawn from -MaxHex..MaxHex

\* HexDirection::all()
all == <<"E", "NE", "NW", "W", "SW", "SE">>

to_offset(direction) ==
    CASE direction = "E"  -> HexCoord_new(1, 0)
      [] direction = "NE" -> HexCoord_new(1, 0 - 1)
      [] direction = "NW" -> HexCoord_new(0, 0 - 1)
      [] direction = "W"  -> HexCoord_new(0 - 1, 0)
      [] direction = "SW" -> HexCoord_new(0 - 1, 1)
      [] direction = "SE" -> HexCoord_new(0, 1)

\* rotate_left with the table of rotate_right
rotate_left_Clockwise(direction) ==
    CASE direction = "E"  -> "SE"
      [] direction = "NE" -> "E"
      [] direction = "NW" -> "NE"
      [] direction = "W"  -> "NW"
      [] direction = "SW" -> "W"
      [] direction = "SE" -> "SW"

rotate_left(direction) ==
    CASE direction = "E"  -> "NE"
      [] direction = "NE" -> "NW"
      [] direction = "NW" -> "W"
      [] direction = "W"  -> "SW"
      [] direction = "SW" -> "SE"
      [] direction = "SE" -> "E"

rotate_right(direction) ==
    CASE direction = "E"  -> "SE"
      [] direction = "NE" -> "E"
      [] direction = "NW" -> "NE"
      [] direction = "W"  -> "NW"
      [] direction = "SW" -> "W"
      [] direction = "SE" -> "SW"

\* opposite with the arms of NE and NW exchanged
opposite_Mirrored(direction) ==
    CASE direction = "E"  -> "W"
      [] direction = "NE" -> "SE"
      [] direction = "NW" -> "SW"
      [] direction = "W"  -> "E"
      [] direction = "SW" -> "NE"
      [] direction = "SE" -> "NW"

opposite(direction) ==
    CASE direction = "E"  -> "W"
      [] direction = "NE" -> "SW"
      [] direction = "NW" -> "SE"
      [] direction = "W"  -> "E"
      [] direction = "SW" -> "NE"
      [] direction = "SE" -> "NW"

\* impl Add for HexCoord, impl Sub for HexCoord
HexCoord_add(self, other) == HexCoord_new(self.q + other.q, self.r + other.r)

HexCoord_sub(self, other) == HexCoord_new(self.q - other.q, self.r - other.r)

neighbor(self, direction) == HexCoord_add(self, to_offset(direction))

\* distance_to without `.abs()` on dz
distance_to_SignedZ(self, other) ==
    LET dx == Abs(self.q - other.q)
        dy == Abs(self.r - other.r)
        dz == (((0 - self.q) - self.r) + other.q) + other.r
    IN  i32_div((dx + dy) + dz, 2)

\* distance_to without the third cube axis
distance_to_TwoAxes(self, other) ==
    LET dx == Abs(self.q - other.q)
        dy == Abs(self.r - other.r)
    IN  i32_div(dx + dy, 2)

distance_to(self, other) ==
    LET dx == Abs(self.q - other.q)
        dy == Abs(self.r - other.r)
        dz == Abs((((0 - self.q) - self.r) + other.q) + other.r)
    IN  i32_div((dx + dy) + dz, 2)

\* direction_to with the delta taken from other to self
direction_to_Reversed(self, other) ==
    LET delta == HexCoord_sub(self, other)
        hits == {i \in DOMAIN all : to_offset(all[i]) = delta}
    IN  IF hits = {} THEN <<>>
        ELSE <<all[CHOOSE i \in hits : \A j \in hits : i <= j]>>

\* the first direction of all() whose offset is the delta: <<dir>> is
\* Some(dir), <<>> is None
direction_to(self, other) ==
    LET delta == HexCoord_sub(other, self)
        hits == {i \in DOMAIN all : to_offset(all[i]) = delta}
    IN  IF hits = {} THEN <<>>
        ELSE <<all[CHOOSE i \in hits : \A j \in hits : i <= j]>>

\* HexCoord::s
HexCoord_s(self) == (0 - self.q) - self.r

\* from_cube that looks at q + r only
from_cube_IgnoresS(q, r, s) ==
    IF q + r = 0 THEN <<HexCoord_new(q, r)>> ELSE <<>>

\* <<hex>> is Some(hex), <<>> is None
from_cube(q, r, s) ==
    IF (q + r) + s = 0 THEN <<HexCoord_new(q, r)>> ELSE <<>>

\* ------------------------------------------- the hex functions on their own
HexRange == (0 - MaxHex) .. MaxHex

HexCoords == {HexCoord_new(q, r) : q \in HexRange, r \in HexRange}

Directions == {all[i] : i \in DOMAIN all}

InitHex ==
    /\ Idle
    /\ EngineIdle
    /\ pc = "call"
    /\ loaded_chunks = [chunks |-> <<>>, load_radius |-> 0]
    /\ loaders = <<>>
    /\ world = <<>>
    /\ \/ \E a \in HexCoords, b \in HexCoords, c \in HexCoords :
             call = [fn |-> "distance_to", hexes |-> <<a, b, c>>]
       \/ \E c \in HexCoords, d \in Directions :
             call = [fn |-> "neighbor", self |-> c, direction |-> d]
       \/ \E a \in HexCoords, b \in HexCoords :
             call = [fn |-> "direction_to", self |-> a, other |-> b]
       \/ \E d \in Directions :
             call = [fn |-> "rotate", direction |-> d]
       \/ \E q \in HexRange, r \in HexRange, s \in HexRange :
             call = [fn |-> "from_cube", q |-> q, r |-> r, s |-> s]
       \/ \E c \in HexCoords :
             call = [fn |-> "s", self |-> c]
    /\ ret = <<>>

Returned ==
    /\ pc' = "return"
    /\ UNCHANGED <<frame, ran, world_seed, terrain_generator, loaded_chunks, loaders,
                   world, commands, next_entity, chunk_loaded_events,
                   chunk_unloaded_events, chunks_to_load, chunks_to_unload,
                   resident_trace, prev_loaders, evicted, debug_log, call, engine>>

\* distance_to between every two of the three hexes
Call_distance_to ==
    /\ pc = "call"
    /\ call.fn = "distance_to"
    /\ ret' = [i \in 1 .. 3 |-> [j \in 1 .. 3 |->
                  distance_to(call.hexes[i], call.hexes[j])]]
    /\ Returned

\* neighbor, and neighbor again from there in the opposite direction
Call_neighbor ==
    /\ pc = "call"
    /\ call.fn = "neighbor"
    /\ LET there == neighbor(call.self, call.direction)
       IN  ret' = [there |-> there,
                   back |-> neighbor(there, opposite(call.direction))]
    /\ Returned

Call_direction_to ==
    /\ pc = "call"
    /\ call.fn = "direction_to"
    /\ ret' = direction_to(call.self, call.other)
    /\ Returned

\* the three operations on a direction, alone and chained
Call_rotate ==
    /\ pc = "call"
    /\ call.fn = "rotate"
    /\ LET d == call.direction
       IN  ret' = [left |-> rotate_left(d),
                   right |-> rotate_right(d),
                   opposite |-> opposite(d),
                   left_right |-> rotate_right(rotate_left(d)),
                   right_left |-> rotate_left(rotate_right(d)),
                   left3 |-> rotate_left(rotate_left(rotate_left(d))),
                   left6 |-> rotate_left(rotate_left(rotate_left(
                                rotate_left(rotate_left(rotate_left(d))))))]
    /\ Returned

Call_from_cube ==
    /\ pc = "call"
    /\ call.fn = "from_cube"
    /\ ret' = from_cube(call.q, call.r, call.s)
    /\ Returned

\* from_cube on the cube coordinates of a hex
Call_s ==
    /\ pc = "call"
    /\ call.fn = "s"
    /\ ret' = from_cube(call.self.q, call.self.r, HexCoord_s(call.self))
    /\ Returned

NextHex ==
    \/ Call_distance_to
    \/ Call_neighbor
    \/ Call_direction_to
    \/ Call_rotate
    \/ Call_from_cube
    \/ Call_s

SpecHex == InitHex /\ [][NextHex]_vars

\* ================================================= TerrainGenerator calls
\* get_biome and generate_elevation called on generators built by
\* with_params.  `call.gen` is the receiver.
MaxOctaves == 4

\* 0.2, 0.4 and 0.7, in any order and with repetitions
Thresholds == {(k * FixedOne) \div 10 : k \in {2, 4, 7}}

\* -0.1, 0.0, 0.1 .. 1.1 and NaN
Elevations == {F32_NAN} \cup {(k * FixedOne) \div 10 : k \in (0 - 1) .. 11}

\* 0.0, 0.5 and 1.0
Persistences == {(k * FixedOne) \div 2 : k \in 0 .. 2}

\* 0.01 as in TerrainGenerator::new, and 1.0
Scales == {FixedOne \div 100, FixedOne}

\* the seed of main.rs, and two seeds whose samples at the origin are -1.0
\* and 1.0
ElevationSeeds == {<<0, 42>>, <<0, 0>>, <<0, 710>>}

InitGenerator ==
    /\ Idle
    /\ EngineIdle
    /\ pc = "call"
    /\ loaded_chunks = [chunks |-> <<>>, load_radius |-> 0]
    /\ loaders = <<>>
    /\ world = <<>>
    /\ ret = <<>>
    /\ \/ \E o \in Thresholds, p \in Thresholds, f \in Thresholds,
             e1 \in Elevations, e2 \in Elevations :
             call = [fn |-> "get_biome",
                     gen |-> TerrainGenerator_with_params(<<0, 42>>, FixedOne \div 100,
                                                          4, FixedOne \div 2, o, p, f),
                     elevations |-> <<e1, e2>>]
       \/ \E seed \in ElevationSeeds, scale \in Scales, octaves \in 0 .. MaxOctaves,
             persistence \in Persistences, coord \in HexCoords :
             call = [fn |-> "generate_elevation",
                     gen |-> TerrainGenerator_with_params(
                                 seed, scale, octaves, persistence,
                                 (2 * FixedOne) \div 10, (4 * FixedOne) \div 10,
                                 (7 * FixedOne) \div 10),
                     coord |-> coord]

\* get_biome on each of the two elevations
Call_get_biome ==
    /\ pc = "call"
    /\ call.fn = "get_biome"
    /\ ret' = <<get_biome(call.gen, call.elevations[1]),
                get_biome(call.gen, call.elevations[2])>>
    /\ pc' = "return"
    /\ UNCHANGED <<frame, ran, world_seed, terrain_generator, loaded_chunks, loaders,
                   world, commands, next_entity, chunk_loaded_events,
                   chunk_unloaded_events, chunks_to_load, chunks_to_unload,
                   resident_trace, prev_loaders, evicted, debug_log, call, engine>>

\* generate_elevation, with the locals `elevation` and `max_value` as the
\* loop leaves them (elevation in units of 1 / FixedOne^2)
Call_generate_elevation ==
    /\ pc = "call"
    /\ call.fn = "generate_elevation"
    /\ LET acc == OctaveLoop(call.gen, call.coord, 0, 0, FixedOne, call.gen.scale, 0)
       IN  ret' = [result    |-> generate_elevation(call.gen, call.coord),
                   elevation |-> acc.elevation,
                   max_value |-> acc.max_value]
    /\ pc' = "return"
    /\ UNCHANGED <<frame, ran, world_seed, terrain_generator, loaded_chunks, loaders,
                   world, commands, next_entity, chunk_loaded_events,
                   chunk_unloaded_events, chunks_to_load, chunks_to_unload,
                   resident_trace, prev_loaders, evicted, debug_log, call, engine>>

NextGenerator ==
    \/ Call_get_biome
    \/ Call_generate_elevation

SpecGenerator == InitGenerator /\ [][NextGenerator]_vars


\* ============================================================ resources.rs
\* A ResourceManager or ResourceSystem is [resources, max_capacity, ..]; both
\* constructors insert a capacity for every ResourceType and nothing removes
\* one, so the `unwrap_or(&f32::INFINITY)` of the capacity lookups is never
\* taken and max_capacity is a total function.  Amounts are f32 in units of
\* 1 / FixedOne.  A call returns [self, ret, events]: the receiver after the
\* call, the value returned and the events sent to the writer, in order.

\* `self.resources.entry(resource).or_insert(0.0)`
or_insert(self, resource) ==
    IF self.resources[resource] = <<>>
    THEN [self EXCEPT !.resources[resource] = <<0>>]
    ELSE self

ResourceChanged(resource_type, old_amount, new_amount, source) ==
    [resource_type |-> resource_type, old_amount |-> old_amount,
     new_amount |-> new_amount, source |-> source]

\* `events.send(..)` when the writer is Some
Sent(event_writer, event) == IF event_writer THEN <<event>> ELSE <<>>

F32Min(a, b) == IF b < a THEN b ELSE a

F32Max(a, b) == IF b > a THEN b ELSE a

ResourceManager_get(self, resource) ==
    IF self.resources[resource] = <<>> THEN 0 ELSE self.resources[resource][1]

ResourceManager_get_capacity(self, resource) == self.max_capacity[resource]

ResourceManager_get_available_space(self, resource) ==
    LET current == ResourceManager_get(self, resource)
        max     == ResourceManager_get_capacity(self, resource)
    IN  F32Max(max - current, 0)

ResourceManager_add(self, resource, amount, event_writer) ==
    LET max        == self.max_capacity[resource]
        entered    == or_insert(self, resource)
        current    == entered.resources[resource][1]
        new_amount == F32Min(current + amount, max)
        added      == new_amount - current
    IN  IF added > 0
        THEN [self   |-> [entered EXCEPT !.resources[resource] = <<new_amount>>],
              ret    |-> added,
              events |-> Sent(event_writer,
                              ResourceChanged(resource, current, new_amount, <<>>))]
        ELSE [self |-> entered, ret |-> added, events |-> <<>>]

\* consume that also succeeds when part of the amount is missing
ResourceManager_consume_Partial(self, resource, amount, event_writer) ==
    LET entered == or_insert(self, resource)
        old     == entered.resources[resource][1]
    IN  IF old > 0
        THEN [self   |-> [entered EXCEPT !.resources[resource] = <<F32Max(old - amount, 0)>>],
              ret    |-> TRUE,
              events |-> Sent(event_writer,
                              ResourceChanged(resource, old, F32Max(old - amount, 0), <<>>))]
        ELSE [self |-> entered, ret |-> FALSE, events |-> <<>>]

ResourceManager_consume(self, resource, amount, event_writer) ==
    LET entered == or_insert(self, resource)
        old     == entered.resources[resource][1]
    IN  IF old >= amount
        THEN [self   |-> [entered EXCEPT !.resources[resource] = <<old - amount>>],
              ret    |-> TRUE,
              events |-> Sent(event_writer,
                              ResourceChanged(resource, old, old - amount, <<>>))]
        ELSE [self |-> entered, ret |-> FALSE, events |-> <<>>]

ResourceManager_set(self, resource, amount, event_writer) ==
    LET entered == or_insert(self, resource)
        old     == entered.resources[resource][1]
    IN  [self   |-> [entered EXCEPT !.resources[resource] = <<amount>>],
         ret    |-> <<>>,
         events |-> Sent(event_writer, ResourceChanged(resource, old, amount, <<>>))]

ResourceManager_set_capacity(self, resource, capacity) ==
    [self EXCEPT !.max_capacity[resource] = capacity]

ResourceSystem_get(self, resource) ==
    IF self.resources[resource] = <<>> THEN 0 ELSE self.resources[resource][1]

ResourceSystem_get_capacity(self, resource) == self.max_capacity[resource]

ResourceSystem_get_available_space(self, resource) ==
    LET current == ResourceSystem_get(self, resource)
        max     == ResourceSystem_get_capacity(self, resource)
    IN  F32Max(max - current, 0)

ResourceSystem_add(self, resource, amount, event_writer, source) ==
    LET max        == self.max_capacity[resource]
        entered    == or_insert(self, resource)
        current    == entered.resources[resource][1]
        new_amount == F32Min(current + amount, max)
        added      == new_amount - current
    IN  IF added > 0
        THEN [self   |-> [entered EXCEPT !.resources[resource] = <<new_amount>>],
              ret    |-> added,
              events |-> Sent(event_writer,
                              ResourceChanged(resource, current, new_amount, source))]
        ELSE [self |-> entered, ret |-> added, events |-> <<>>]

ResourceSystem_consume(self, resource, amount, event_writer, source) ==
    LET entered == or_insert(self, resource)
        old     == entered.resources[resource][1]
    IN  IF old >= amount
        THEN [self   |-> [entered EXCEPT !.resources[resource] = <<old - amount>>],
              ret    |-> TRUE,
              events |-> Sent(event_writer,
                              ResourceChanged(resource, old, old - amount, source))]
        ELSE [self |-> entered, ret |-> FALSE, events |-> <<>>]

ResourceSystem_set(self, resource, amount, event_writer, source) ==
    LET entered == or_insert(self, resource)
        old     == entered.resources[resource][1]
    IN  [self   |-> [entered EXCEPT !.resources[resource] = <<amount>>],
         ret    |-> <<>>,
         events |-> Sent(event_writer, ResourceChanged(resource, old, amount, source))]

ResourceSystem_set_capacity(self, resource, capacity) ==
    [self EXCEPT !.max_capacity[resource] = capacity]

\* returns [from, to, ret, events]
transfer_resources(from, to, resource, amount, event_writer, source) ==
    LET available_from  == ResourceSystem_get(from, resource)
        available_to    == ResourceSystem_get_available_space(to, resource)
        transfer_amount == F32Min(F32Min(amount, available_from), available_to)
        consumed == ResourceSystem_consume(from, resource, transfer_amount,
                                           event_writer, source)
        added    == ResourceSystem_add(to, resource, transfer_amount,
                                       event_writer, source)
    IN  IF transfer_amount > 0
        THEN [from |-> consumed.self, to |-> added.self, ret |-> transfer_amount,
              events |-> consumed.events \o added.events]
        ELSE [from |-> from, to |-> to, ret |-> transfer_amount, events |-> <<>>]

\* ---- the calls, on one ResourceManager and two ResourceSystems
MaxAmount == 2

MaxSetup == 2

\* the amounts handed to add, consume, set and transfer_resources
Amounts == {a * FixedOne : a \in (0 - 1) .. MaxAmount}

\* the capacities handed to set_capacity
Capacities == {a * FixedOne : a \in 0 .. MaxAmount}

\* the resource types the calls name; the code treats all five alike
CalledTypes == {"Food", "Water"}

\* the `source` of a call on a ResourceSystem: None
NoSource == <<>>

InitResources ==
    /\ Idle
    /\ AgentsIdle
    /\ WeatherIdle
    /\ ProfilerIdle
    /\ TimeIdle
    /\ pc = "call"
    /\ loaded_chunks = [chunks |-> <<>>, load_radius |-> 0]
    /\ loaders = <<>>
    /\ world = <<>>
    /\ resource_manager = ResourceManager_new
    /\ resource_systems = <<ResourceSystem_new, ResourceSystem_new>>
    /\ resource_changed_events = <<>>
    /\ call = [fn |-> "new", nth |-> 0]
    /\ ret = <<>>

ResourcesUnchanged ==
    UNCHANGED <<frame, ran, world_seed, terrain_generator, loaded_chunks, loaders,
                world, commands, next_entity, chunk_loaded_events,
                chunk_unloaded_events, chunks_to_load, chunks_to_unload,
                resident_trace, prev_loaders, evicted, debug_log, agents,
                tick_events, weather, weather_changed_events, weather_reader,
                weather_log, memory_profiler, memory_request, time_systems>>

\* the debugging calls that prepare the stores: set and set_capacity
Call_ResourceManager_set ==
    /\ pc = "call"
    /\ call.nth < MaxSetup
    /\ \E resource \in CalledTypes, amount \in Amounts :
          LET r == ResourceManager_set(resource_manager, resource, amount, TRUE)
          IN  /\ resource_manager' = r.self
              /\ resource_changed_events' = resource_changed_events \o r.events
              /\ call' = [fn |-> "ResourceManager::set", nth |-> call.nth + 1,
                          resource |-> resource, amount |-> amount]
              /\ ret' = r.ret
    /\ UNCHANGED <<pc, resource_systems>>
    /\ ResourcesUnchanged

Call_ResourceManager_set_capacity ==
    /\ pc = "call"
    /\ call.nth < MaxSetup
    /\ \E resource \in CalledTypes, capacity \in Capacities :
          /\ resource_manager' =
                 ResourceManager_set_capacity(resource_manager, resource, capacity)
          /\ call' = [fn |-> "ResourceManager::set_capacity", nth |-> call.nth + 1,
                      resource |-> resource, capacity |-> capacity]
    /\ ret' = <<>>
    /\ UNCHANGED <<pc, resource_systems, resource_changed_events>>
    /\ ResourcesUnchanged

Call_ResourceSystem_set ==
    /\ pc = "call"
    /\ call.nth < MaxSetup
    /\ \E i \in DOMAIN resource_systems, resource \in CalledTypes, amount \in Amounts :
          LET r == ResourceSystem_set(resource_systems[i], resource, amount, TRUE, NoSource)
          IN  /\ resource_systems' = [resource_systems EXCEPT ![i] = r.self]
              /\ resource_changed_events' = resource_changed_events \o r.events
              /\ call' = [fn |-> "ResourceSystem::set", nth |-> call.nth + 1,
                          system |-> i, resource |-> resource, amount |-> amount]
              /\ ret' = r.ret
    /\ UNCHANGED <<pc, resource_manager>>
    /\ ResourcesUnchanged

Call_ResourceSystem_set_capacity ==
    /\ pc = "call"
    /\ call.nth < MaxSetup
    /\ \E i \in DOMAIN resource_systems, resource \in CalledTypes, capacity \in Capacities :
          /\ resource_systems' =
                 [resource_systems EXCEPT
                     ![i] = ResourceSystem_set_capacity(@, resource, capacity)]
          /\ call' = [fn |-> "ResourceSystem::set_capacity", nth |-> call.nth + 1,
                      system |-> i, resource |-> resource, capacity |-> capacity]
    /\ ret' = <<>>
    /\ UNCHANGED <<pc, resource_manager, resource_changed_events>>
    /\ ResourcesUnchanged

\* the calls the claims are about
Call_ResourceManager_add ==
    /\ pc = "call"
    /\ \E resource \in CalledTypes, amount \in Amounts, event_writer \in BOOLEAN :
          LET r == ResourceManager_add(resource_manager, resource, amount, event_writer)
          IN  /\ resource_manager' = r.self
              /\ resource_changed_events' = resource_changed_events \o r.events
              /\ call' = [fn |-> "ResourceManager::add", nth |-> call.nth + 1,
                          resource |-> resource, amount |-> amount,
                          event_writer |-> event_writer]
              /\ ret' = r.ret
    /\ pc' = "return"
    /\ UNCHANGED resource_systems
    /\ ResourcesUnchanged

Call_ResourceManager_consume ==
    /\ pc = "call"
    /\ \E resource \in CalledTypes, amount \in Amounts, event_writer \in BOOLEAN :
          LET r == ResourceManager_consume(resource_manager, resource, amount, event_writer)
          IN  /\ resource_manager' = r.self
              /\ resource_changed_events' = resource_changed_events \o r.events
              /\ call' = [fn |-> "ResourceManager::consume", nth |-> call.nth + 1,
                          resource |-> resource, amount |-> amount,
                          event_writer |-> event_writer]
              /\ ret' = r.ret
    /\ pc' = "return"
    /\ UNCHANGED resource_systems
    /\ ResourcesUnchanged

Call_ResourceSystem_add ==
    /\ pc = "call"
    /\ \E i \in DOMAIN resource_systems, resource \in CalledTypes, amount \in Amounts,
          event_writer \in BOOLEAN :
          LET r == ResourceSystem_add(resource_systems[i], resource, amount,
                                      event_writer, NoSource)
          IN  /\ resource_systems' = [resource_systems EXCEPT ![i] = r.self]
              /\ resource_changed_events' = resource_changed_events \o r.events
              /\ call' = [fn |-> "ResourceSystem::add", nth |-> call.nth + 1,
                          system |-> i, resource |-> resource, amount |-> amount,
                          event_writer |-> event_writer]
              /\ ret' = r.ret
    /\ pc' = "return"
    /\ UNCHANGED resource_manager
    /\ ResourcesUnchanged

Call_ResourceSystem_consume ==
    /\ pc = "call"
    /\ \E i \in DOMAIN resource_systems, resource \in CalledTypes, amount \in Amounts,
          event_writer \in BOOLEAN :
          LET r == ResourceSystem_consume(resource_systems[i], resource, amount,
                                          event_writer, NoSource)
          IN  /\ resource_systems' = [resource_systems EXCEPT ![i] = r.self]
              /\ resource_changed_events' = resource_changed_events \o r.events
              /\ call' = [fn |-> "ResourceSystem::consume", nth |-> call.nth + 1,
                          system |-> i, resource |-> resource, amount |-> amount,
                          event_writer |-> event_writer]
              /\ ret' = r.ret
    /\ pc' = "return"
    /\ UNCHANGED resource_manager
    /\ ResourcesUnchanged

Call_transfer_resources ==
    /\ pc = "call"
    /\ \E i \in DOMAIN resource_systems, j \in DOMAIN resource_systems,
          resource \in CalledTypes, amount \in Amounts, event_writer \in BOOLEAN :
          /\ i # j
          /\ LET r == transfer_resources(resource_systems[i], resource_systems[j],
                                         resource, amount, event_writer, NoSource)
             IN  /\ resource_systems' =
                        [resource_systems EXCEPT ![i] = r.from, ![j] = r.to]
                 /\ resource_changed_events' = resource_changed_events \o r.events
                 /\ call' = [fn |-> "transfer_resources", nth |-> call.nth + 1,
                             from |-> i, to |-> j, resource |-> resource,
                             amount |-> amount, event_writer |-> event_writer]
                 /\ ret' = r.ret
    /\ pc' = "return"
    /\ UNCHANGED resource_manager
    /\ ResourcesUnchanged

NextResources ==
    \/ Call_ResourceManager_set
    \/ Call_ResourceManager_set_capacity
    \/ Call_ResourceSystem_set
    \/ Call_ResourceSystem_set_capacity
    \/ Call_ResourceManager_add
    \/ Call_ResourceManager_consume
    \/ Call_ResourceSystem_add
    \/ Call_ResourceSystem_consume
    \/ Call_transfer_resources

SpecResources == InitResources /\ [][NextResources]_vars

\* ========================================== agents/agent.rs, engine/tick.rs
\* An agent is [id, name, tick_count, memory, message_queue, current_job];
\* position, velocity, energy, age and perception_range are not touched by
\* the tick and are left out, as is the wall-clock reading duration_ms of
\* the event.  tick_count is a u32 word; memory is a set of [key, value]
\* with one entry per key.
MaxAgents == 3

MaxRuns == 3

U32_MAX == <<W16 - 1, W16 - 1>>

\* `u.wrapping_add(1)`
WrappingSucc(u) ==
    IF u[2] = W16 - 1 THEN <<(u[1] + 1) % W16, 0>> ELSE <<u[1], u[2] + 1>>

\* Agent::default, with the Uuid it drew
Agent_default(id) ==
    [id |-> id,
     name |-> "",
     tick_count |-> <<0, 0>>,
     memory |-> {},
     message_queue |-> <<>>,
     current_job |-> <<"Idle">>]

Message_new(from, to, content, timestamp) ==
    [from |-> from, to |-> to, content |-> content, timestamp |-> timestamp]

\* Job::is_complete: only Idle is
is_complete(job) == job = "Idle"

\* HashMap::insert
MemoryInsert(memory, key, value) ==
    {m \in memory : m.key # key} \cup {[key |-> key, value |-> value]}

\* process_message: the content goes to memory under "message_<tick_count>"
process_message(self, message) ==
    [self EXCEPT !.memory = MemoryInsert(@, <<"message_", self.tick_count>>,
                                         message.content)]

\* the loop `while let Some(message) = self.message_queue.pop_front()`: every
\* message is stored under the same key, so the last one stays
ProcessQueue(self) ==
    IF self.message_queue = <<>>
    THEN self
    ELSE [process_message(self, self.message_queue[Len(self.message_queue)])
             EXCEPT !.message_queue = <<>>]

process_job(self, job) ==
    IF is_complete(job) THEN [self EXCEPT !.current_job = <<"Idle">>] ELSE self

\* Agent::tick.  `self.tick_count += 1` on u32::MAX panics when the build
\* checks overflow (the dev profile) and wraps when it does not (release);
\* the panic comes before any write.  Returns [ok, agent]: ok is FALSE when
\* the tick panicked.
Agent_tick(self, overflow_checks) ==
    IF self.tick_count = U32_MAX /\ overflow_checks
    THEN [ok |-> FALSE, agent |-> self]
    ELSE LET counted   == [self EXCEPT !.tick_count = WrappingSucc(@)]
             processed == ProcessQueue(counted)
             worked    == IF processed.current_job # <<>>
                          THEN process_job(processed, processed.current_job[1])
                          ELSE processed
         IN  [ok |-> TRUE, agent |-> worked]

AgentTickCompleted(agent) ==
    [agent_id |-> agent.id, agent_name |-> agent.name, tick_count |-> agent.tick_count]

\* the ring in which every agent writes to itself
generate_messages_for_all_agents_ToSelf(query, current_time) ==
    [i \in DOMAIN query |->
        <<i, Message_new(query[i].id, query[i].id,
                         <<"Hello from ", query[i].name, "!">>, current_time)>>]

\* generate_messages_for_all_agents: agent i greets agent (i + 1) % n, in
\* query order; <<recipient, message>> with the recipient's place in the query
generate_messages_for_all_agents(query, current_time) ==
    [i \in DOMAIN query |->
        LET next_idx == (i % Len(query)) + 1
        IN  <<next_idx,
              Message_new(query[i].id, query[next_idx].id,
                          <<"Hello from ", query[i].name, "!">>, current_time)>>]

\* the first loop of agent_tick_system that gives up at the first panic
TickLoop_StopsAtPanic(query, overflow_checks) ==
    [i \in DOMAIN query |->
        IF \E j \in 1 .. i : ~Agent_tick(query[j], overflow_checks).ok
        THEN [ok |-> FALSE, agent |-> query[i]]
        ELSE Agent_tick(query[i], overflow_checks)]

\* the first loop of agent_tick_system: every agent of the query is ticked
\* under catch_unwind, whatever became of the ones before it
TickLoop(query, overflow_checks) ==
    [i \in DOMAIN query |-> Agent_tick(query[i], overflow_checks)]

\* the tick counts of the agents: tick_count is a public field, and agents
\* spawned at different times have run a different number of ticks
TickCounts == {<<0, 0>>, <<0, 1>>, <<0, W16 - 1>>, <<W16 - 1, W16 - 2>>, U32_MAX}

InitAgents ==
    /\ Idle
    /\ ResourcesIdle
    /\ WeatherIdle
    /\ ProfilerIdle
    /\ TimeIdle
    /\ pc = "Update"
    /\ loaded_chunks = [chunks |-> <<>>, load_radius |-> 0]
    /\ loaders = <<>>
    /\ world = <<>>
    /\ \E n \in 0 .. MaxAgents : \E tick_count \in [1 .. n -> TickCounts] :
          agents = [i \in 1 .. n |-> [Agent_default(i) EXCEPT !.tick_count = tick_count[i]]]
    /\ tick_events = <<>>
    /\ \E overflow_checks \in BOOLEAN :
          call = [fn |-> "agent_tick_system", overflow_checks |-> overflow_checks]
    /\ ret = <<>>

\* one run of agent_tick_system: the ticks with their events, then the
\* collection and the delivery of the messages.  `frame` counts the runs and
\* stands for time.elapsed_secs(); `ret` keeps messages_to_send.
agent_tick_system ==
    /\ pc = "Update"
    /\ frame < MaxRuns
    /\ LET ticked   == TickLoop(agents, call.overflow_checks)
           after    == [i \in DOMAIN agents |-> ticked[i].agent]
           oks      == SelectSeq([i \in DOMAIN agents |-> i], LAMBDA i : ticked[i].ok)
           events   == [k \in DOMAIN oks |-> AgentTickCompleted(after[oks[k]])]
           messages_to_send == generate_messages_for_all_agents(after, frame)
           \* every agent is the recipient of at most one pair
           Received(i) == SelectSeq(messages_to_send, LAMBDA m : m[1] = i)
       IN  /\ agents' = [i \in DOMAIN agents |->
                            [after[i] EXCEPT !.message_queue =
                                @ \o [k \in DOMAIN Received(i) |-> Received(i)[k][2]]]]
           /\ tick_events' = tick_events \o events
           /\ ret' = messages_to_send
    /\ frame' = frame + 1
    /\ UNCHANGED <<pc, ran, world_seed, terrain_generator, loaded_chunks, loaders,
                   world, commands, next_entity, chunk_loaded_events,
                   chunk_unloaded_events, chunks_to_load, chunks_to_unload,
                   resident_trace, prev_loaders, evicted, debug_log, call,
                   resource_manager, resource_systems, resource_changed_events,
                   weather, weather_changed_events, weather_reader, weather_log,
                   memory_profiler, memory_request, time_systems>>

NextAgents == agent_tick_system

SpecAgents == InitAgents /\ [][NextAgents]_vars

\* ========================================================= engine/weather.rs
\* The fields of a WeatherSystem are f32 in units of 1 / FixedOne, the frame
\* delta is in units of 1 / FixedOne seconds.
MaxUpdates == 2

\* std::f32::consts::PI * 2.0
TAU == 6283

\* `a * b` on fixed-point values: (a * b) \div FixedOne, computed in two
\* parts so that the product stays within the integers of the checker
FMul(a, b) == ((a \div FixedOne) * b) + (((a % FixedOne) * b) \div FixedOne)

\* clamp that only applies the lower limit
clamp_LowerOnly(x, min, max) == IF x < min THEN min ELSE x

\* f32::clamp
clamp(x, min, max) == IF x < min THEN min ELSE IF x > max THEN max ELSE x

\* Events::send: the event goes to the newer buffer under the next id
Events_send(events, event) ==
    [events EXCEPT !.events_b = Append(@, [event_id |-> events.event_count,
                                           event |-> event]),
                   !.event_count = @ + 1]

\* EventWriter::send for each event of a sequence, in order
RECURSIVE SendAll(_, _)
SendAll(events, batch) ==
    IF batch = <<>> THEN events
    ELSE SendAll(Events_send(events, Head(batch)), Tail(batch))

\* Events::update: the newer buffer becomes the older one, whose events go
Events_update(events) ==
    [events EXCEPT !.events_a = events.events_b, !.events_b = <<>>]

\* Events::clear: both buffers are emptied, the count stays
Events_clear(events) ==
    [events EXCEPT !.events_a = <<>>, !.events_b = <<>>]

\* the events of both buffers, oldest first
Buffered(events) == events.events_a \o events.events_b

\* EventReader::read to the end: the buffered events the reader has not
\* seen, and the reader moved to the count.  Returns [read, reader].
EventReader_read(reader, events) ==
    [read   |-> SelectSeq(Buffered(events),
                          LAMBDA e : e.event_id >= reader.last_event_count),
     reader |-> [last_event_count |-> events.event_count]]

WeatherChanged(w) ==
    [temperature |-> w.temperature, humidity |-> w.humidity,
     wind_speed |-> w.wind_speed, wind_direction |-> w.wind_direction,
     precipitation |-> w.precipitation, cloud_cover |-> w.cloud_cover]

\* the body of the loop of update_weather_system for one WeatherSystem.
\* random is the sequence of the values random::<f32>() returns, in the
\* order of the calls in the source (the two of the rain branch are only
\* consumed when the branch asks for them); sin_time_of_day is
\* (time_of_day * TAU).sin().  Returns [weather, events].
UpdateWeather(old, delta, sin_time_of_day, random) ==
    LET half == FixedOne \div 2
        base_temp == (15 * FixedOne) + (10 * sin_time_of_day)
        temperature == base_temp + ((random[1] - half) * 2)
        wind_speed ==
            clamp(old.wind_speed + FMul(FMul(random[2] - half, delta), FixedOne \div 10),
                  0, 20 * FixedOne)
        turned == old.wind_direction
                     + FMul(FMul(random[3] - half, delta), FixedOne \div 10)
        wind_direction == IF turned > TAU THEN turned - TAU ELSE turned
        humidity ==
            clamp(old.humidity + FMul(FMul(random[4] - half, delta), FixedOne \div 100),
                  0, FixedOne)
        cloud_cover ==
            clamp(old.cloud_cover + FMul(FMul(humidity - half, delta), FixedOne \div 100),
                  0, FixedOne)
        precipitation ==
            IF /\ humidity > (8 * FixedOne) \div 10
               /\ cloud_cover > (6 * FixedOne) \div 10
               /\ random[5] < FixedOne \div 10
            THEN random[6] * 10
            ELSE FMul(old.precipitation, (95 * FixedOne) \div 100)
        new == [temperature |-> temperature, humidity |-> humidity,
                wind_speed |-> wind_speed, wind_direction |-> wind_direction,
                precipitation |-> precipitation, cloud_cover |-> cloud_cover]
        significant ==
            \/ Abs(new.temperature - old.temperature) > 2 * FixedOne
            \/ Abs(new.humidity - old.humidity) > FixedOne \div 10
            \/ Abs(new.wind_speed - old.wind_speed) > FixedOne
            \/ Abs(new.precipitation - old.precipitation) > FixedOne
            \/ Abs(new.cloud_cover - old.cloud_cover) > FixedOne \div 10
    IN  [weather |-> new,
         events  |-> IF significant THEN <<WeatherChanged(new)>> ELSE <<>>]

\* random::<f32>() lies in [0, 1): the least value and the greatest
Randoms == {0, FixedOne - 1}

\* time.delta_secs(): no time, one second, a thousand seconds
Deltas == {0, FixedOne, 1000 * FixedOne}

\* (time_of_day * TAU).sin() for the elapsed time of the frame: the runs
\* are taken at the start of a day, where it is 0; only the temperature
\* depends on it
Sines == {0}

\* after Startup: spawn_weather_system has spawned the default weather
InitWeather ==
    /\ Idle
    /\ ResourcesIdle
    /\ AgentsIdle
    /\ ProfilerIdle
    /\ TimeIdle
    /\ pc = "Update"
    /\ loaded_chunks = [chunks |-> <<>>, load_radius |-> 0]
    /\ loaders = <<>>
    /\ world = <<>>
    /\ weather = <<WeatherSystem_default>>
    /\ WeatherEventsIdle
    /\ call = [fn |-> "spawn_weather_system"]
    /\ ret = <<>>

\* the body of update_weather_system for one frame's delta and draws
RunUpdateWeather(delta, sin_time_of_day, random) ==
    LET updated == [i \in DOMAIN weather |->
                       UpdateWeather(weather[i], delta, sin_time_of_day, random)]
    IN  /\ weather' = [i \in DOMAIN weather |-> updated[i].weather]
        /\ weather_changed_events' =
               SendAll(weather_changed_events, updated[1].events)
        /\ call' = [fn |-> "update_weather_system", delta |-> delta,
                    random |-> random]

\* one run of update_weather_system; `frame` counts the runs
update_weather_system ==
    /\ pc = "Update"
    /\ frame < MaxUpdates
    /\ \E delta \in Deltas, sin_time_of_day \in Sines, random \in [1 .. 6 -> Randoms] :
          RunUpdateWeather(delta, sin_time_of_day, random)
    /\ frame' = frame + 1
    /\ UNCHANGED <<pc, ran, world_seed, terrain_generator, loaded_chunks, loaders,
                   world, commands, next_entity, chunk_loaded_events,
                   chunk_unloaded_events, chunks_to_load, chunks_to_unload,
                   resident_trace, prev_loaders, evicted, debug_log, ret,
                   resource_manager, resource_systems, resource_changed_events,
                   agents, tick_events, weather_reader, weather_log,
                   memory_profiler, memory_request, time_systems>>

NextWeather == update_weather_system

SpecWeather == InitWeather /\ [][NextWeather]_vars

\* ------------------------------------------- WeatherPlugin: the Update systems
\* WeatherPlugin::build puts the three systems in Update as a plain tuple:
\* no `.chain()`, no `.before()` / `.after()`, so the schedule may run them
\* in any order.  All three take Events<WeatherChanged> (the writer and
\* clear_weather_events mutably), so no two of them overlap.
WeatherSystems ==
    {"update_weather_system", "process_weather_changes", "clear_weather_events"}

\* the system has not run yet in this frame
Unscheduled(system) ==
    /\ pc = "Update"
    /\ frame < MaxUpdates
    /\ system \notin ran

\* what the chunk systems and the other parts of the engine hold
PluginUnchanged ==
    UNCHANGED <<pc, world_seed, terrain_generator, loaded_chunks, loaders,
                world, commands, next_entity, chunk_loaded_events,
                chunk_unloaded_events, chunks_to_load, chunks_to_unload,
                resident_trace, prev_loaders, evicted, debug_log, ret,
                resource_manager, resource_systems, resource_changed_events,
                agents, tick_events, memory_profiler, memory_request,
                time_systems>>

\* the draws of a frame: all of them least, or all of them greatest
FrameRandoms == {[k \in 1 .. 6 |-> r] : r \in Randoms}

\* update_weather_system as the Update schedule runs it
Update_update_weather_system ==
    /\ Unscheduled("update_weather_system")
    /\ \E delta \in Deltas, sin_time_of_day \in Sines, random \in FrameRandoms :
          RunUpdateWeather(delta, sin_time_of_day, random)
    /\ ran' = ran \cup {"update_weather_system"}
    /\ PluginUnchanged
    /\ UNCHANGED <<frame, weather_reader, weather_log>>

\* process_weather_changes: logs every event its reader has not seen
process_weather_changes ==
    /\ Unscheduled("process_weather_changes")
    /\ LET events == EventReader_read(weather_reader, weather_changed_events)
       IN  /\ weather_reader' = events.reader
           /\ weather_log' = weather_log
                                \o [k \in DOMAIN events.read |-> events.read[k].event_id]
    /\ ran' = ran \cup {"process_weather_changes"}
    /\ PluginUnchanged
    /\ UNCHANGED <<frame, weather, weather_changed_events, call>>

\* clear_weather_events: events.clear()
clear_weather_events ==
    /\ Unscheduled("clear_weather_events")
    /\ weather_changed_events' = Events_clear(weather_changed_events)
    /\ ran' = ran \cup {"clear_weather_events"}
    /\ PluginUnchanged
    /\ UNCHANGED <<frame, weather, weather_reader, weather_log, call>>

\* the frame ends when the three systems have run; event_update_system,
\* which add_event has put in the First schedule, opens the next one
event_update_system ==
    /\ pc = "Update"
    /\ frame < MaxUpdates
    /\ ran = WeatherSystems
    /\ weather_changed_events' = Events_update(weather_changed_events)
    /\ ran' = {}
    /\ frame' = frame + 1
    /\ PluginUnchanged
    /\ UNCHANGED <<weather, weather_reader, weather_log, call>>

NextWeatherPlugin ==
    \/ Update_update_weather_system
    \/ process_weather_changes
    \/ clear_weather_events
    \/ event_update_system

SpecWeatherPlugin == InitWeather /\ [][NextWeatherPlugin]_vars

\* ========================================================= engine/memory.rs
MaxReadings == 3

\* the 100 of `if profiler.memory_history.len() > 100`
HistoryLimit == 100

\* MemoryProfiler::default: profile_interval is 5.0 seconds
ProfileInterval == 5 * FixedOne

\* the push that drops the reading it has just made when the history is full
PushReading_DropsNewest(memory_history, reading) ==
    LET pushed == Append(memory_history, reading)
    IN  IF Len(pushed) > HistoryLimit
        THEN SubSeq(pushed, 1, Len(pushed) - 1)
        ELSE pushed

\* memory_history.push(reading), then remove(0) when more than 100 are held
PushReading(memory_history, reading) ==
    LET pushed == Append(memory_history, reading)
    IN  IF Len(pushed) > HistoryLimit THEN Tail(pushed) ELSE pushed

\* the history after k earlier runs, one every ProfileInterval, of a world
\* without entities
HistoryAfter(k) ==
    LET first == IF k > HistoryLimit THEN k - HistoryLimit ELSE 0
    IN  [i \in 1 .. (k - first) |-> <<(first + i) * ProfileInterval, 0>>]

\* the runs before the ones explored: none, and around the hundredth
EarlierRuns == {0, 1, HistoryLimit - 1, HistoryLimit, HistoryLimit + 1}

\* the number of entities the query of gather_memory_stats counts
EntityCounts == 0 .. 2

InitProfiler ==
    /\ Idle
    /\ ResourcesIdle
    /\ AgentsIdle
    /\ WeatherIdle
    /\ TimeIdle
    /\ pc = "Update"
    /\ loaded_chunks = [chunks |-> <<>>, load_radius |-> 0]
    /\ loaders = <<>>
    /\ world = <<>>
    /\ \E k \in EarlierRuns :
          /\ memory_profiler = [memory_history |-> HistoryAfter(k)]
          /\ memory_request = [timestamp |-> k * ProfileInterval]
    /\ call = [fn |-> "MemoryProfilingPlugin"]
    /\ ret = <<>>

ProfilerUnchanged ==
    UNCHANGED <<pc, world_seed, terrain_generator, loaded_chunks, loaders,
                world, commands, next_entity, chunk_loaded_events,
                chunk_unloaded_events, chunks_to_load, chunks_to_unload,
                resident_trace, prev_loaders, evicted, debug_log, call, ret,
                resource_manager, resource_systems, resource_changed_events,
                agents, tick_events, weather, weather_changed_events,
                weather_reader, weather_log, time_systems>>

\* memory_profiling_system: returns early while the interval has not passed,
\* otherwise asks for a profile stamped with the current time
memory_profiling_system ==
    /\ pc = "Update"
    /\ frame < MaxReadings
    /\ "memory_profiling_system" \notin ran
    /\ \E interval_elapsed \in BOOLEAN :
          memory_request' =
              IF interval_elapsed
              THEN [timestamp |-> memory_request.timestamp + ProfileInterval]
              ELSE memory_request
    /\ ran' = ran \cup {"memory_profiling_system"}
    /\ ProfilerUnchanged
    /\ UNCHANGED <<frame, memory_profiler>>

\* gather_memory_stats, which runs after memory_profiling_system in every
\* frame: the reading is pushed and the history is trimmed
gather_memory_stats ==
    /\ pc = "Update"
    /\ "memory_profiling_system" \in ran
    /\ \E entity_count \in EntityCounts :
          LET total_memory == entity_count * 64
          IN  memory_profiler' =
                  [memory_profiler EXCEPT !.memory_history =
                      PushReading(@, <<memory_request.timestamp, total_memory>>)]
    /\ ran' = {}
    /\ frame' = frame + 1
    /\ ProfilerUnchanged
    /\ UNCHANGED memory_request

NextProfiler ==
    \/ memory_profiling_system
    \/ gather_memory_stats

SpecProfiler == InitProfiler /\ [][NextProfiler]_vars

\* =========================================================== engine/time.rs
MaxClocks == 2

MaxTicks == 2

\* TimeSystem::default: a day of 24.0 * 60.0
TimeSystem_default ==
    [current_time |-> 0,
     day_length   |-> (24 * 60) * FixedOne,
     time_scale   |-> FixedOne]

\* the body of the loop of update_time_system for one TimeSystem
UpdateTime(time_system, delta) ==
    LET advanced == time_system.current_time + FMul(time_system.time_scale, delta)
    IN  [time_system EXCEPT !.current_time =
            IF advanced >= time_system.day_length
            THEN advanced - time_system.day_length
            ELSE advanced]

\* time.delta_secs(): no time, a frame at 60 Hz, and the longest step the
\* virtual clock hands out (a quarter of a second)
FrameDeltas == {0, 16, FixedOne \div 4}

\* time_scale is a public field: stopped, real time, a minute and 200
\* minutes of simulation per second
TimeScales == {0, FixedOne, 60 * FixedOne, 12000 * FixedOne}

\* where in the day a TimeSystem stands: its start, noon, its last instant
StartTimes(day_length) == {0, day_length \div 2, day_length - 1}

\* the TimeSystem components as they may stand before a run
TimeSystems ==
    {[TimeSystem_default EXCEPT !.current_time = t, !.time_scale = k] :
        t \in StartTimes(TimeSystem_default.day_length), k \in TimeScales}

InitTime ==
    /\ Idle
    /\ ResourcesIdle
    /\ AgentsIdle
    /\ WeatherIdle
    /\ ProfilerIdle
    /\ pc = "Update"
    /\ loaded_chunks = [chunks |-> <<>>, load_radius |-> 0]
    /\ loaders = <<>>
    /\ world = <<>>
    /\ \E n \in 1 .. MaxClocks : time_systems \in [1 .. n -> TimeSystems]
    /\ call = [fn |-> "spawn"]
    /\ ret = <<>>

\* one run of update_time_system; `frame` counts the runs
update_time_system ==
    /\ pc = "Update"
    /\ frame < MaxTicks
    /\ \E delta \in FrameDeltas :
          /\ time_systems' = [i \in DOMAIN time_systems |->
                                 UpdateTime(time_systems[i], delta)]
          /\ call' = [fn |-> "update_time_system", delta |-> delta]
    /\ frame' = frame + 1
    /\ UNCHANGED <<pc, ran, world_seed, terrain_generator, loaded_chunks, loaders,
                   world, commands, next_entity, chunk_loaded_events,
                   chunk_unloaded_events, chunks_to_load, chunks_to_unload,
                   resident_trace, prev_loaders, evicted, debug_log, ret,
                   resource_manager, resource_systems, resource_changed_events,
                   agents, tick_events, weather, weather_changed_events,
                   weather_reader, weather_log, memory_profiler, memory_request>>

NextTime == update_time_system

SpecTime == InitTime /\ [][NextTime]_vars

\* ================================================================ claims
ClsRan == "chunk_loading_system" \in ran

\* the square window of a loader, as a set
WindowSet(p, radius) ==
    {ChunkCoord_new(p.x + dx, p.y + dy) : dx \in (0 - radius) .. radius,
                                          dy \in (0 - radius) .. radius}

Resident == DOMAIN loaded_chunks.chunks

InSomeWindow(coord) ==
    \E i \in DOMAIN loaders :
        /\ Abs(coord.x - loaders[i].x) <= loaded_chunks.load_radius
        /\ Abs(coord.y - loaders[i].y) <= loaded_chunks.load_radius

\* the chunks the queue is about to spawn, and the entities it is about to despawn
Spawning == {commands[i].chunk : i \in {j \in DOMAIN commands : commands[j].op = "spawn"}}

Despawning == {commands[i].entity : i \in {j \in DOMAIN commands : commands[j].op = "despawn"}}

LiveChunks == {world[e] : e \in DOMAIN world}

\* the seed the claims give a chunk at coord: world_seed XOR
\* ((x as u32 * 31 mod 2^32) XOR (y as u32 * 17 mod 2^32))
ClaimedHash(coord) ==
    U32Xor(WrappingMul(AsU32(coord.x), 31), WrappingMul(AsU32(coord.y), 17))

ClaimedSeed(coord) == U32Xor(world_seed, ClaimedHash(coord))

\* C1: after every run of chunk_loading_system the key set of
\* LoadedChunks.chunks is exactly the union of the loaders' square windows.
C1_ResidentIsRequiredSet ==
    ClsRan =>
        Resident = UNION {WindowSet(loaders[i], loaded_chunks.load_radius) :
                             i \in DOMAIN loaders}

\* two loaders with overlapping, different windows, after a move, radius >= 1
C1_Witness ==
    /\ ClsRan
    /\ frame >= 2
    /\ Len(loaders) = 2
    /\ loaded_chunks.load_radius >= 1
    /\ loaders[1] # loaders[2]
    /\ prev_loaders # loaders
    /\ Cardinality(Resident) > (2 * loaded_chunks.load_radius + 1) ^ 2
    /\ Cardinality(Resident) < 2 * ((2 * loaded_chunks.load_radius + 1) ^ 2)

\* C2: no coordinate is generated more than once without an unload in
\* between: a run never lists a coordinate twice for loading, and no two
\* chunk entities (live or about to be spawned) carry the same coordinate.
C2_GeneratedOnce ==
    /\ \A i, j \in DOMAIN chunks_to_load :
          chunks_to_load[i] = chunks_to_load[j] => i = j
    /\ \A e1, e2 \in DOMAIN world :
          world[e1].coord = world[e2].coord => e1 = e2

\* C3: a single loader that moved to a window disjoint from its previous one:
\* after the next run no chunk of the old window is resident and every chunk
\* of the new window is.
C3_Premise ==
    /\ ClsRan
    /\ frame >= 2
    /\ Len(loaders) = 1
    /\ Len(prev_loaders) = 1
    /\ WindowSet(prev_loaders[1], loaded_chunks.load_radius)
         \cap WindowSet(loaders[1], loaded_chunks.load_radius) = {}

C3_Teleport ==
    C3_Premise =>
        /\ WindowSet(prev_loaders[1], loaded_chunks.load_radius) \cap Resident = {}
        /\ WindowSet(loaders[1], loaded_chunks.load_radius) \subseteq Resident

C3_Witness ==
    /\ C3_Premise
    /\ loaded_chunks.load_radius >= 1
    /\ chunks_to_unload # <<>>

\* C4: in the unload phase a chunk is retained iff some loader has it inside
\* its window on both axes; every other chunk leaves the resident mapping in
\* that run, and its entity is despawned by the run's commands.
C4_RetainedIffInWindow ==
    /\ (ClsRan /\ pc \in {"Update", "UpdateSync"}) =>
          \A e \in DOMAIN world :
              /\ InSomeWindow(world[e].coord) <=> world[e].coord \in Resident
              /\ InSomeWindow(world[e].coord) <=> e \notin Despawning
    /\ (ClsRan /\ pc \in {"Debug", "FrameEnd"}) =>
          \A e \in DOMAIN world : InSomeWindow(world[e].coord)

\* one chunk kept by the second loader alone, another one evicted
C4_Witness ==
    /\ ClsRan
    /\ pc \in {"Update", "UpdateSync"}
    /\ Len(loaders) = 2
    /\ \E e \in DOMAIN world :
          /\ e \notin Despawning
          /\ Abs(world[e].coord.x - loaders[1].x) > loaded_chunks.load_radius
          /\ Abs(world[e].coord.y - loaders[1].y) <= loaded_chunks.load_radius
    /\ \E e \in DOMAIN world :
          /\ e \in Despawning
          /\ world[e].coord \notin Resident

Observable == ~ (ClsRan /\ pc \in {"Update", "UpdateSync"})

\* C6: wherever a system can observe the resident mapping, every key's handle
\* is a live chunk with that coordinate, loaded, and with its tiles populated.
C6_NeverPartiallyResident ==
    Observable =>
        \A c \in Resident :
            LET e == loaded_chunks.chunks[c]
            IN  /\ e \in DOMAIN world
                /\ world[e].coord = c
                /\ world[e].is_loaded
                /\ Cardinality(DOMAIN world[e].tiles) = CHUNK_SIZE * CHUNK_SIZE

C6_Witness ==
    /\ pc = "Debug"
    /\ frame >= 2
    /\ chunks_to_load # <<>>
    /\ chunks_to_unload # <<>>
    /\ Cardinality(Resident) > 1

\* C7: a run emits one load event per chunk it inserts and one unload event
\* per chunk it removes.
C7_EventPerTransition ==
    ClsRan =>
        /\ Len(chunk_loaded_events) = Len(chunks_to_load)
        /\ Len(chunk_unloaded_events) = Len(chunks_to_unload)

\* C8: every chunk chunk_loading_system makes resident has
\* seed = world_seed XOR position_hash(coord), negative coordinates included.
C8_ResidentSeed ==
    \A chunk \in LiveChunks \cup Spawning : chunk.seed = ClaimedSeed(chunk.coord)

\* the chunk at (-1, -1) under world seed 42: 42 XOR (0xFFFFFFE1 XOR 0xFFFFFFEF) = 36
C8_Witness ==
    /\ world_seed = <<0, 42>>
    /\ \E e \in DOMAIN world :
          /\ world[e].coord = ChunkCoord_new(0 - 1, 0 - 1)
          /\ world[e].seed = <<0, 36>>
          /\ loaded_chunks.chunks[world[e].coord] = e
    /\ \E e \in DOMAIN world : world[e].coord.x < 0 /\ world[e].coord.y > 0

\* C9 as claimed: Chunk::new(coord).seed = world_seed XOR position_hash(coord).
C9_NewSeedHasWorldSeed ==
    pc = "Chunk::new" =>
        \A i \in DOMAIN world : world[i].seed = ClaimedSeed(world[i].coord)

\* C9 as amended: Chunk::new(coord).seed = position_hash(coord), whatever the
\* world seed, and constructing the same coordinate again gives the same seed.
C9_NewSeedIsPositionHash ==
    pc = "Chunk::new" =>
        /\ \A i \in DOMAIN world : world[i].seed = ClaimedHash(world[i].coord)
        /\ \A i, j \in DOMAIN world :
              world[i].coord = world[j].coord => world[i].seed = world[j].seed

\* (3, 4) constructed twice in a row: 93 XOR 68 = 25
C9_Witness ==
    /\ pc = "Chunk::new"
    /\ Len(world) = 2
    /\ world[1].coord = ChunkCoord_new(3, 4)
    /\ world[2].coord = ChunkCoord_new(3, 4)
    /\ world[2].seed = <<0, 25>>

\* C10: a chunk created again for a coordinate that was evicted before has
\* the seed and the tile mapping the evicted chunk had.
C10_RecreatedIdentical ==
    \A chunk \in LiveChunks \cup Spawning :
        chunk.coord \in DOMAIN evicted =>
            /\ chunk.seed = evicted[chunk.coord].seed
            /\ chunk.tiles = evicted[chunk.coord].tiles

\* a chunk evicted by an earlier run and made resident again by the last one
C10_Witness ==
    /\ pc = "Debug"
    /\ \E c \in Resident :
          /\ c \in DOMAIN evicted
          /\ c \in Range(chunks_to_load)
          /\ world[loaded_chunks.chunks[c]].tiles = evicted[c].tiles
          /\ Cardinality(DOMAIN evicted[c].tiles) = CHUNK_SIZE * CHUNK_SIZE

\* ------------------------------------------------ C11 .. C13: chunk fill
\* 16 * v and 16 * v + 15 are both i32 values
ChunkFits(v) == v >= I32_MIN \div CHUNK_SIZE /\ v <= I32_MAX \div CHUNK_SIZE

\* 16 * v + l is an i32 value, for a local offset l in 0..15
GlobalFits(v, l) ==
    v >= I32_MIN \div CHUNK_SIZE /\ v <= (I32_MAX - l) \div CHUNK_SIZE

LocalRange == 0 .. (CHUNK_SIZE - 1)

Generated == pc = "generated"

\* C11: without overflow, generate_chunk_terrain on the empty chunk at (x, y)
\* leaves exactly the 256 keys (16x + q, 16y + r), q and r in 0..15, and
\* every tile's biome is get_biome of the tile's elevation.
C11_FullChunk ==
    (Generated /\ ChunkFits(world[1].coord.x) /\ ChunkFits(world[1].coord.y)) =>
        LET chunk == world[1]
        IN  /\ DOMAIN chunk.tiles =
                  {HexCoord_new((CHUNK_SIZE * chunk.coord.x) + q,
                                (CHUNK_SIZE * chunk.coord.y) + r) :
                      q \in LocalRange, r \in LocalRange}
            /\ Cardinality(DOMAIN chunk.tiles) = CHUNK_SIZE * CHUNK_SIZE
            /\ \A hex \in DOMAIN chunk.tiles :
                  chunk.tiles[hex].biome =
                      get_biome(terrain_generator, chunk.tiles[hex].elevation)

\* the chunk at (-2, 1): keys from (-32, 16) to (-17, 31), more than one biome
C11_Witness ==
    /\ pc = "generated"
    /\ world[1].coord = ChunkCoord_new(0 - 2, 1)
    /\ HexCoord_new(0 - 32, 16) \in DOMAIN world[1].tiles
    /\ HexCoord_new(0 - 17, 31) \in DOMAIN world[1].tiles
    /\ Cardinality({world[1].tiles[hex].biome : hex \in DOMAIN world[1].tiles}) > 1

\* C12: whatever the chunk coordinate, the fill returns, and a local tile
\* (q, r) is in the mapping exactly when its own global coordinate
\* (16x + q, 16y + r) is a pair of i32 values.
C12_OnlyOverflowSkips ==
    Generated =>
        LET chunk == world[1]
            x == chunk.coord.x
            y == chunk.coord.y
            Fits(q, r) == GlobalFits(x, q) /\ GlobalFits(y, r)
            Global(q, r) == HexCoord_new((CHUNK_SIZE * x) + q, (CHUNK_SIZE * y) + r)
        IN  DOMAIN chunk.tiles =
                {Global(l[1], l[2]) :
                    l \in {p \in LocalRange \X LocalRange : Fits(p[1], p[2])}}

\* a chunk whose x * 16 overflows: the fill returned and skipped its tiles
C12_Witness ==
    /\ pc = "generated"
    /\ world[1].coord = ChunkCoord_new((I32_MAX \div CHUNK_SIZE) + 1, 1)
    /\ world[1].tiles = <<>>

\* C13: from_hex of a key that generate_chunk_terrain inserted for the chunk
\* at c is c.
C13_FromHexIsContainingChunk ==
    (pc = "return" /\ call.fn = "from_hex") => ret = world[1].coord

\* ------------------------------------------------ C14: get_neighbor_chunks
Called(fn) == pc = "return" /\ call.fn = fn

\* the eight coordinates around coord
RectNeighbors(coord) ==
    {ChunkCoord_new(coord.x + dx, coord.y + dy) :
        dx \in (0 - 1) .. 1, dy \in (0 - 1) .. 1} \ {coord}

NeighborResultOK ==
    LET present == RectNeighbors(call.coord) \cap Resident
    IN  /\ Range(ret) = {loaded_chunks.chunks[c] : c \in present}
        /\ Len(ret) = Cardinality(present)
        /\ Len(ret) <= 8
        /\ call.coord \in Resident => loaded_chunks.chunks[call.coord] \notin Range(ret)

\* C14: a call of get_neighbor_chunks(coord) leaves the resident mapping as
\* it was and returns, once each, the handles of the resident ones among the
\* eight rectangular neighbours of coord, and never the handle of coord.
C14_NeighborsOfResident ==
    [][(call' # call \/ ret' # ret) =>
          (loaded_chunks' = loaded_chunks /\ NeighborResultOK')]_vars

\* asked about a resident chunk with some neighbours resident and some not
C14_Witness ==
    /\ Called("get_neighbor_chunks")
    /\ call.coord \in Resident
    /\ Len(ret) = 3
    /\ NeighborResultOK

\* --------------------------------------------------- C15 .. C20: hex algebra

\* C15: distance_to is symmetric, never negative, and zero exactly between
\* equal hexes.
C15_DistanceSymmetricPositive ==
    Called("distance_to") =>
        \A i \in 1 .. 3, j \in 1 .. 3 :
            /\ ret[i][j] = ret[j][i]
            /\ ret[i][j] >= 0
            /\ ret[i][j] = 0 <=> call.hexes[i] = call.hexes[j]

C15_Witness ==
    /\ Called("distance_to")
    /\ call.hexes[1] = HexCoord_new(0 - 1, 2)
    /\ call.hexes[2] = HexCoord_new(2, 0 - 1)
    /\ call.hexes[3] = call.hexes[1]
    /\ ret[1][2] = 3
    /\ ret[2][1] = 3
    /\ ret[1][3] = 0

\* C16: distance_to(a, c) <= distance_to(a, b) + distance_to(b, c).
C16_TriangleInequality ==
    Called("distance_to") =>
        \A i \in 1 .. 3, j \in 1 .. 3, k \in 1 .. 3 :
            ret[i][k] <= ret[i][j] + ret[j][k]

\* three different hexes, the detour over the second strictly longer
C16_Witness ==
    /\ Called("distance_to")
    /\ ret[1][3] > 0
    /\ ret[1][2] > 0
    /\ ret[2][3] > 0
    /\ ret[1][3] < ret[1][2] + ret[2][3]

\* C17: a step in direction d and a step in d.opposite() lead back; the
\* offset of d.opposite() is the negated offset of d.
C17_NeighborRoundTrip ==
    Called("neighbor") =>
        /\ ret.back = call.self
        /\ to_offset(opposite(call.direction)) =
              HexCoord_new(0 - to_offset(call.direction).q,
                           0 - to_offset(call.direction).r)

C17_Witness ==
    /\ Called("neighbor")
    /\ call.self = HexCoord_new(2, 0 - 2)
    /\ call.direction = "SW"
    /\ ret.there = HexCoord_new(1, 0 - 1)
    /\ ret.back = call.self

\* C18: direction_to(a, b) is Some(d) exactly when b is the neighbour of a
\* in direction d; it is None for a = b and for every pair not at distance 1,
\* and Some for every pair at distance 1.
C18_DirectionIffNeighbor ==
    Called("direction_to") =>
        LET a == call.self
            b == call.other
        IN  /\ \A d \in Directions : ret = <<d>> <=> b = neighbor(a, d)
            /\ a = b => ret = <<>>
            /\ distance_to(a, b) # 1 => ret = <<>>
            /\ distance_to(a, b) = 1 => ret # <<>>

C18_Witness ==
    /\ Called("direction_to")
    /\ call.self = HexCoord_new(1, 0 - 1)
    /\ call.other = HexCoord_new(1, 0 - 2)
    /\ ret = <<"NW">>

\* C19: rotate_left and rotate_right undo each other, opposite is three
\* rotate_left, six rotate_left come back, and all results are directions.
C19_RotationsConsistent ==
    Called("rotate") =>
        /\ ret.left_right = call.direction
        /\ ret.right_left = call.direction
        /\ ret.opposite = ret.left3
        /\ ret.left6 = call.direction
        /\ {ret.left, ret.right, ret.opposite} \subseteq Directions

C19_Witness ==
    /\ Called("rotate")
    /\ call.direction = "SE"
    /\ ret.left = "E"
    /\ ret.right = "SW"
    /\ ret.left3 = "NW"
    /\ ret.opposite = "NW"

\* C20: from_cube(q, r, s) is Some(HexCoord(q, r)) if q + r + s = 0 and None
\* otherwise; from_cube(c.q, c.r, c.s()) is Some(c).
C20_FromCubeIffZeroSum ==
    /\ Called("from_cube") =>
          /\ (call.q + call.r) + call.s = 0 => ret = <<HexCoord_new(call.q, call.r)>>
          /\ (call.q + call.r) + call.s # 0 => ret = <<>>
    /\ Called("s") => ret = <<call.self>>

C20_Witness ==
    /\ Called("from_cube")
    /\ call.q = 2
    /\ call.r = 0 - 1
    /\ call.s = 0 - 1
    /\ ret = <<HexCoord_new(2, 0 - 1)>>

\* ---------------------------------------------------------------- C21
BiomeRank(biome) ==
    CASE biome = "Ocean" -> 0
      [] biome = "Plains" -> 1
      [] biome = "Forest" -> 2
      [] biome = "Mountains" -> 3
      [] OTHER -> 4

\* what the ladder of the claim gives for one elevation
LadderOK(gen, e, biome) ==
    /\ biome = "Ocean" <=> F32Less(e, gen.ocean_threshold)
    /\ biome = "Plains" <=>
           (~ F32Less(e, gen.ocean_threshold) /\ F32Less(e, gen.plains_threshold))
    /\ biome = "Forest" <=>
           (/\ ~ F32Less(e, gen.ocean_threshold)
            /\ ~ F32Less(e, gen.plains_threshold)
            /\ F32Less(e, gen.forest_threshold))
    /\ biome = "Mountains" <=>
           (/\ ~ F32Less(e, gen.ocean_threshold)
            /\ ~ F32Less(e, gen.plains_threshold)
            /\ ~ F32Less(e, gen.forest_threshold))

Ascending(gen) ==
    /\ gen.ocean_threshold < gen.plains_threshold
    /\ gen.plains_threshold < gen.forest_threshold

\* C21: get_biome is the strict-less-than ladder Ocean, Plains, Forest,
\* Mountains over the three thresholds; with ascending thresholds a higher
\* elevation never gets a lower biome, an elevation equal to a threshold
\* gets the biome above it, and Desert is never returned.
C21_BiomeLadder ==
    Called("get_biome") =>
        LET gen == call.gen
            e1  == call.elevations[1]
            e2  == call.elevations[2]
        IN  /\ LadderOK(gen, e1, ret[1])
            /\ LadderOK(gen, e2, ret[2])
            /\ ret[1] # "Desert" /\ ret[2] # "Desert"
            /\ Ascending(gen) =>
                  /\ (e1 # F32_NAN /\ e2 # F32_NAN /\ e1 <= e2) =>
                         BiomeRank(ret[1]) <= BiomeRank(ret[2])
                  /\ e1 = gen.ocean_threshold => ret[1] = "Plains"
                  /\ e1 = gen.plains_threshold => ret[1] = "Forest"
                  /\ e1 = gen.forest_threshold => ret[1] = "Mountains"

\* ascending thresholds, an elevation on the plains threshold and a higher
\* one on the forest threshold: Forest and Mountains
C21_Witness ==
    /\ Called("get_biome")
    /\ Ascending(call.gen)
    /\ call.elevations = <<call.gen.plains_threshold, call.gen.forest_threshold>>
    /\ ret = <<"Forest", "Mountains">>

\* ---------------------------------------------------------------- C22
\* C22: with octaves >= 1 and persistence in [0, 1], generate_elevation
\* returns a value in [0, 1]: max_value, the sum of the amplitudes, is not
\* zero and the accumulated sum divided by it lies in [-1, 1].
C22_ElevationInUnitInterval ==
    (Called("generate_elevation") /\ call.gen.octaves >= 1) =>
        /\ ret.max_value # 0
        /\ ret.max_value >= FixedOne
        /\ ret.elevation >= (0 - FixedOne) * ret.max_value
        /\ ret.elevation <= FixedOne * ret.max_value
        /\ ret.result # F32_NAN
        /\ ret.result >= 0
        /\ ret.result <= FixedOne

\* several octaves whose samples are all 1.0: the elevation is exactly 1.0
C22_Witness ==
    /\ Called("generate_elevation")
    /\ call.gen.octaves > 1
    /\ call.gen.persistence > 0
    /\ ret.max_value > FixedOne
    /\ ret.elevation = FixedOne * ret.max_value
    /\ ret.result = FixedOne

\* ---------------------------------------------------------------- C23
\* what `get` reports for the resource of call c in the store c is made on
Stored(manager, systems, c) ==
    IF c.fn \in {"ResourceManager::add", "ResourceManager::consume"}
    THEN ResourceManager_get(manager, c.resource)
    ELSE ResourceSystem_get(systems[c.system], c.resource)

\* the capacity of that resource in that store
CapacityOf(manager, systems, c) ==
    IF c.fn \in {"ResourceManager::add", "ResourceManager::consume"}
    THEN ResourceManager_get_capacity(manager, c.resource)
    ELSE ResourceSystem_get_capacity(systems[c.system], c.resource)

\* this step is a call of one of the functions named
Calls(fns) == pc = "call" /\ pc' = "return" /\ call'.fn \in fns

\* C23: add leaves min(current + amount, capacity) in the store, never
\* raises the stored amount above the capacity, and returns exactly the
\* amount by which the stored amount changed.
C23_AddCappedAndReported ==
    [][Calls({"ResourceManager::add", "ResourceSystem::add"}) =>
          LET current  == Stored(resource_manager, resource_systems, call')
              capacity == CapacityOf(resource_manager, resource_systems, call')
              after    == Stored(resource_manager', resource_systems', call')
          IN  /\ after = F32Min(current + call'.amount, capacity)
              /\ after > current => after <= capacity
              /\ ret' = after - current]_vars

\* ---------------------------------------------------------------- C24
\* C24: consume returns true exactly when the stored amount is at least the
\* amount asked for, and then the stored amount goes down by that amount;
\* otherwise it returns false, get reports the same amount as before and no
\* ResourceChanged event is sent.
C24_ConsumeAllOrNothing ==
    [][Calls({"ResourceManager::consume", "ResourceSystem::consume"}) =>
          LET current == Stored(resource_manager, resource_systems, call')
              after   == Stored(resource_manager', resource_systems', call')
          IN  /\ ret' \in BOOLEAN
              /\ ret' <=> current >= call'.amount
              /\ ret' => after = current - call'.amount
              /\ ~ ret' => /\ after = current
                           /\ resource_changed_events' = resource_changed_events]_vars

\* a store that holds something, but less than the amount asked for: the
\* call has failed and the store still holds it
C24_Witness ==
    /\ Called("ResourceManager::consume")
    /\ ret = FALSE
    /\ call.event_writer
    /\ ResourceManager_get(resource_manager, call.resource) > 0
    /\ ResourceManager_get(resource_manager, call.resource) < call.amount

\* ---------------------------------------------------------------- C25
\* C25: transfer_resources returns min(amount, what `from` holds, the space
\* `to` has left), `from` goes down and `to` goes up by exactly the value
\* returned, so their sum stays, and no other resource type changes in
\* either system.
C25_TransferConserves ==
    [][Calls({"transfer_resources"}) =>
          LET c     == call'
              from  == resource_systems[c.from]
              to    == resource_systems[c.to]
              from2 == resource_systems'[c.from]
              to2   == resource_systems'[c.to]
          IN  /\ ret' = F32Min(F32Min(c.amount, ResourceSystem_get(from, c.resource)),
                               ResourceSystem_get_available_space(to, c.resource))
              /\ ResourceSystem_get(from2, c.resource) =
                     ResourceSystem_get(from, c.resource) - ret'
              /\ ResourceSystem_get(to2, c.resource) =
                     ResourceSystem_get(to, c.resource) + ret'
              /\ ResourceSystem_get(from2, c.resource) + ResourceSystem_get(to2, c.resource)
                   = ResourceSystem_get(from, c.resource) + ResourceSystem_get(to, c.resource)
              /\ \A t \in ResourceTypes \ {c.resource} :
                    /\ ResourceSystem_get(from2, t) = ResourceSystem_get(from, t)
                    /\ ResourceSystem_get(to2, t) = ResourceSystem_get(to, t)]_vars

\* ---------------------------------------------------------------- C26
\* the events the step has added to Events<AgentTickCompleted>
NewTickEvents == SubSeq(tick_events', Len(tick_events) + 1, Len(tick_events'))

\* C26: a run of agent_tick_system raises every agent's tick_count by
\* exactly 1 and sends exactly one AgentTickCompleted per agent, with the
\* agent's id and its tick_count after the tick: n events for n agents.
C26_EveryAgentTickedOnce ==
    [][frame' # frame =>
          /\ Len(NewTickEvents) = Len(agents)
          /\ \A i \in DOMAIN agents :
                /\ agents[i].tick_count # U32_MAX
                /\ agents'[i].tick_count = WrappingSucc(agents[i].tick_count)
                /\ Cardinality({k \in DOMAIN NewTickEvents :
                                   NewTickEvents[k].agent_id = agents[i].id}) = 1
                /\ \A k \in DOMAIN NewTickEvents :
                      NewTickEvents[k].agent_id = agents[i].id =>
                         NewTickEvents[k].tick_count = agents'[i].tick_count]_vars

\* ---------------------------------------------------------------- C27
\* update_weather_system has run at least once
WeatherUpdated == call.fn = "update_weather_system"

\* C27: after every run of update_weather_system humidity is in [0, 1],
\* wind_speed in [0, 20], cloud_cover in [0, 1] and precipitation is not
\* negative.
C27_WeatherClamped ==
    WeatherUpdated =>
        \A i \in DOMAIN weather :
            /\ weather[i].humidity >= 0 /\ weather[i].humidity <= FixedOne
            /\ weather[i].wind_speed >= 0 /\ weather[i].wind_speed <= 20 * FixedOne
            /\ weather[i].cloud_cover >= 0 /\ weather[i].cloud_cover <= FixedOne
            /\ weather[i].precipitation >= 0

\* a run of a thousand seconds with the greatest draws: humidity, wind speed
\* and cloud cover stand on their upper limits, and it rains
C27_Witness ==
    /\ WeatherUpdated
    /\ call.delta = 1000 * FixedOne
    /\ weather[1].humidity = FixedOne
    /\ weather[1].wind_speed = 20 * FixedOne
    /\ weather[1].cloud_cover = FixedOne
    /\ weather[1].precipitation > 0

\* ---------------------------------------------------------------- C28
\* C28: after every run of update_weather_system, from the default weather,
\* 0 <= wind_direction < TAU.
C28_WindDirectionInTurn ==
    WeatherUpdated =>
        \A i \in DOMAIN weather :
            weather[i].wind_direction >= 0 /\ weather[i].wind_direction < TAU

\* ---------------------------------------------------------------- C29
\* C29: wherever a system can observe them, the live chunk entities and the
\* resident mapping correspond one to one: no two live chunk entities carry
\* the same coordinate, every key's handle is a live chunk with that
\* coordinate, and every live chunk entity is the handle of exactly one key.
C29_EntitiesMatchMapping ==
    Observable =>
        /\ \A e1 \in DOMAIN world, e2 \in DOMAIN world :
              world[e1].coord = world[e2].coord => e1 = e2
        /\ \A c \in Resident :
              /\ loaded_chunks.chunks[c] \in DOMAIN world
              /\ world[loaded_chunks.chunks[c]].coord = c
        /\ \A e \in DOMAIN world :
              Cardinality({c \in Resident : loaded_chunks.chunks[c] = e}) = 1

\* ---------------------------------------------------------------- C30
\* C30: two chunks of different coordinates that generate_chunk_terrain has
\* populated have no tile key in common.
C30_TilesOwnedByOneChunk ==
    (pc = "generated twice" /\ world[1].coord # world[2].coord) =>
        (DOMAIN world[1].tiles) \cap (DOMAIN world[2].tiles) = {}

\* two full chunks side by side, on either side of q = 0
C30_Witness ==
    /\ pc = "generated twice"
    /\ world[1].coord = ChunkCoord_new(0 - 1, 0)
    /\ world[2].coord = ChunkCoord_new(0, 0)
    /\ Cardinality(DOMAIN world[1].tiles) = CHUNK_SIZE * CHUNK_SIZE
    /\ Cardinality(DOMAIN world[2].tiles) = CHUNK_SIZE * CHUNK_SIZE

\* ---------------------------------------------------------------- C31
\* the place in the query of the successor of agent i among n agents
Successor(i, n) == (i % n) + 1

\* the queue of agent j as its tick of this run leaves it
QueueAfterTick(j) == TickLoop(agents, call.overflow_checks)[j].agent.message_queue

\* C31: in a run of agent_tick_system with n >= 1 agents every agent sends
\* exactly one message, to its successor in query order ((i + 1) mod n, so
\* a single agent writes to itself); every agent receives exactly one
\* message, pushed at the back of its queue, and the `to` field of that
\* message is the id of the agent that owns the queue.
C31_RingOfMessages ==
    [][(frame' # frame /\ Len(agents) >= 1) =>
          LET n == Len(agents)
              messages_to_send == ret'
          IN  /\ Len(messages_to_send) = n
              /\ \A i \in 1 .. n :
                    /\ messages_to_send[i][1] = Successor(i, n)
                    /\ messages_to_send[i][2].from = agents[i].id
                    /\ messages_to_send[i][2].to = agents[Successor(i, n)].id
              /\ \A j \in 1 .. n :
                    LET queue == agents'[j].message_queue
                        kept  == QueueAfterTick(j)
                    IN  /\ Cardinality({i \in 1 .. n : messages_to_send[i][1] = j}) = 1
                        /\ Len(queue) = Len(kept) + 1
                        /\ SubSeq(queue, 1, Len(kept)) = kept
                        /\ queue[Len(queue)].to = agents'[j].id
                        /\ \E i \in 1 .. n :
                              messages_to_send[i] = <<j, queue[Len(queue)]>>]_vars

\* three agents after a run: the first one holds the message of the third,
\* the second one the message of the first
C31_Witness ==
    /\ frame >= 1
    /\ Len(agents) = 3
    /\ Len(ret) = 3
    /\ agents[1].message_queue # <<>> /\ agents[1].message_queue[1].from = agents[3].id
    /\ agents[2].message_queue # <<>> /\ agents[2].message_queue[1].from = agents[1].id

\* ---------------------------------------------------------------- C32
\* the tick of agent i panics in this run
TickPanics(i) == ~Agent_tick(agents[i], call.overflow_checks).ok

\* C32: when the tick of an agent panics, the run goes on: every agent
\* whose tick does not panic is ticked and gets its one AgentTickCompleted
\* event, the agent whose tick panicked gets none and keeps its tick_count,
\* and the messages are collected and delivered for all the agents.
C32_PanicIsContained ==
    [][(frame' # frame /\ \E i \in DOMAIN agents : TickPanics(i)) =>
          /\ \A i \in DOMAIN agents :
                LET mine == {k \in DOMAIN NewTickEvents :
                                NewTickEvents[k].agent_id = agents[i].id}
                IN  IF TickPanics(i)
                    THEN /\ mine = {}
                         /\ agents'[i].tick_count = agents[i].tick_count
                    ELSE /\ Cardinality(mine) = 1
                         /\ agents'[i].tick_count = WrappingSucc(agents[i].tick_count)
                         /\ \A k \in mine :
                               NewTickEvents[k].tick_count = agents'[i].tick_count
          /\ Len(ret') = Len(agents)
          /\ \A j \in DOMAIN agents :
                LET queue == agents'[j].message_queue
                IN  /\ Len(queue) = Len(QueueAfterTick(j)) + 1
                    /\ queue[Len(queue)] = ret'[((j + Len(agents) - 2) % Len(agents)) + 1][2]]_vars

\* after one run with overflow checks: the second of three agents stood at
\* u32::MAX and panicked, the other two were ticked and have their events,
\* and all three have their message
C32_Witness ==
    /\ frame = 1
    /\ call.overflow_checks
    /\ Len(agents) = 3
    /\ agents[2].tick_count = U32_MAX
    /\ agents[1].tick_count = <<0, 1>>
    /\ agents[3].tick_count = <<0, 2>>
    /\ Len(tick_events) = 2
    /\ tick_events[1].agent_id = agents[1].id
    /\ tick_events[2].agent_id = agents[3].id
    /\ \A j \in 1 .. 3 : Len(agents[j].message_queue) = 1

\* ---------------------------------------------------------------- C33
\* the events the step takes out of the buffers of Events<WeatherChanged>
Removed ==
    {e \in Range(Buffered(weather_changed_events)) :
        e \notin Range(Buffered(weather_changed_events'))}

\* C33: an event leaves Events<WeatherChanged> only after
\* process_weather_changes has read it, in whatever order the schedule runs
\* update_weather_system, process_weather_changes and clear_weather_events.
C33_ReadBeforeCleared ==
    [][\A e \in Removed : e.event_id \in Range(weather_log)]_vars

\* ---------------------------------------------------------------- C34
\* the history with the reading of this run of gather_memory_stats at its end
Pushed ==
    memory_profiler.memory_history
        \o <<memory_profiler'.memory_history[Len(memory_profiler'.memory_history)]>>

\* C34: after a run of gather_memory_stats memory_history holds at most 100
\* readings, and they are the last ones of the old history followed by the
\* new reading, in their order: the oldest reading is the one that goes.
C34_LastHundredReadings ==
    [][frame' # frame =>
          LET new  == memory_profiler'.memory_history
              drop == Len(Pushed) - Len(new)
          IN  /\ Len(new) <= HistoryLimit
              /\ Len(new) >= 1
              /\ new[Len(new)][1] = memory_request.timestamp
              /\ new[Len(new)][2] \in {entity_count * 64 : entity_count \in EntityCounts}
              /\ drop = (IF Len(Pushed) > HistoryLimit THEN Len(Pushed) - HistoryLimit ELSE 0)
              /\ \A k \in 1 .. Len(new) : new[k] = Pushed[drop + k]]_vars

\* a full history after two more runs: the readings of the two first
\* intervals have gone, and the last one is the new reading of one entity
C34_Witness ==
    /\ frame = 2
    /\ Len(memory_profiler.memory_history) = HistoryLimit
    /\ memory_profiler.memory_history[1] = <<3 * ProfileInterval, 0>>
    /\ memory_profiler.memory_history[HistoryLimit] = <<memory_request.timestamp, 64>>

\* ---------------------------------------------------------------- C35
\* C35: every TimeSystem that started with 0 <= current_time < day_length
\* has 0 <= current_time < day_length after every run of
\* update_time_system, whatever the frame delta >= 0 and time_scale >= 0.
C35_TimeWithinDay ==
    \A i \in DOMAIN time_systems :
        /\ time_systems[i].current_time >= 0
        /\ time_systems[i].current_time < time_systems[i].day_length
====
